---- MODULE Spec2Model ----
(***************************************************************************)
(* Track pipeline of pixel-racer: Geometry Kernel, Curvature Analyzer,     *)
(* Track Validator and Procedural Generator.                               *)
(*                                                                         *)
(* Numbers.  The program computes in IEEE doubles.  Here every length is   *)
(* a fixed-point integer counted in 1/UNIT metre (centimetres), every      *)
(* curvature a fixed-point integer counted in 1/CurvScale per metre, and   *)
(* a square root is rounded to the nearest representable value, as the     *)
(* hardware rounds it.  Products of coordinates stay exact.                *)
(***************************************************************************)
EXTENDS Integers, Sequences, FiniteSets, TLC

\* ------------------------------------------------------------------------
\* Fixed-point arithmetic
\* ------------------------------------------------------------------------

\* units per metre
UNIT == 10 * 10

\* curvature units per (1/metre)
CurvScale == 1000 * 100

\* Cosines and the components of unit vectors are kept in 1/TrigScale.
TrigScale == 10 * 1000

Abs(a) == IF a < 0 THEN -a ELSE a

Min(a, b) == IF a < b THEN a ELSE b

Max(a, b) == IF a > b THEN a ELSE b

\* Math.round of the rational a / b (b > 0): nearest integer, halves go up.
RoundDiv(a, b) == (2 * a + b) \div (2 * b)

\* floor(x * m / d) without forming x * m (x >= 0, d > 0).
MulDiv(x, m, d) == (x \div d) * m + ((x % d) * m) \div d

\* q + r \div d with the remainder brought below d
Normalise(q, r, d) == [q |-> q + r \div d, r |-> r % d]

\* x * m = 16 * (x * (m \div 16)) + x * (m % 16), as quotient and
\* remainder by d, from the quotient and remainder half of x * (m \div 16).
MulDivStep(half, x, m, d) ==
  Normalise(16 * half.q + ((m % 16) * x) \div d,
            16 * half.r + (((m % 16) * x) % d), d)

\* Quotient and remainder of x * m by d, without forming x * m
\* (0 <= x < 10^8, m >= 0, 0 < d < 10^8).
RECURSIVE MulDivRem(_, _, _)
MulDivRem(x, m, d) ==
  IF m = 0 THEN [q |-> 0, r |-> 0]
  ELSE MulDivStep(MulDivRem(x, m \div 16, d), x, m, d)

\* The quotient rounded to the nearest integer.
NearestQuotient(qr, d) == qr.q + (IF 2 * qr.r >= d THEN 1 ELSE 0)

\* v * m / d rounded to the nearest unit (m >= 0, d > 0).
Scale(v, m, d) ==
  IF v < 0 THEN -NearestQuotient(MulDivRem(-v, m, d), d)
  ELSE NearestQuotient(MulDivRem(v, m, d), d)

\* The larger of s and s + 1 whose square is at most n.
SqrtStep(n, s) == IF (s + 1) <= n \div (s + 1) THEN s + 1 ELSE s

RECURSIVE FloorSqrt(_)
FloorSqrt(n) == IF n < 2 THEN n ELSE SqrtStep(n, 2 * FloorSqrt(n \div 4))

\* The nearer of r and r + 1 to the square root of n, for r = FloorSqrt(n).
Nearest(n, r) == IF n - r * r > r THEN r + 1 ELSE r

\* Math.sqrt, rounded to the nearest unit.
Sqrt(n) == Nearest(n, FloorSqrt(n))

\* JavaScript's % : the result takes the sign of the dividend.
JsMod(a, n) == IF a >= 0 THEN a % n ELSE -((-a) % n)

\* The array a loop or a map builds, with every element computed once.
Array(f) == f \o <<>>

\* s[lo] + ... + s[hi], summed by halves
RECURSIVE SumRange(_, _, _)
SumRange(s, lo, hi) ==
  IF lo > hi THEN 0
  ELSE IF lo = hi THEN s[lo]
  ELSE LET mid == (lo + hi) \div 2
       IN  SumRange(s, lo, mid) + SumRange(s, mid + 1, hi)

\* Array.prototype.reduce((a, b) => a + b, 0)
SumSeq(s) == SumRange(s, 1, Len(s))

RECURSIVE MinRange(_, _, _)
MinRange(s, lo, hi) ==
  IF lo = hi THEN s[lo]
  ELSE LET mid == (lo + hi) \div 2
       IN  Min(MinRange(s, lo, mid), MinRange(s, mid + 1, hi))

RECURSIVE MaxRange(_, _, _)
MaxRange(s, lo, hi) ==
  IF lo = hi THEN s[lo]
  ELSE LET mid == (lo + hi) \div 2
       IN  Max(MaxRange(s, lo, mid), MaxRange(s, mid + 1, hi))

\* Math.min(...s) and Math.max(...s) of a non-empty array
MinSeq(s) == MinRange(s, 1, Len(s))

MaxSeq(s) == MaxRange(s, 1, Len(s))

\* rows[lo] \o ... \o rows[hi], joined by halves
RECURSIVE ConcatRange(_, _, _)
ConcatRange(rows, lo, hi) ==
  IF lo > hi THEN <<>>
  ELSE IF lo = hi THEN rows[lo]
  ELSE LET mid == (lo + hi) \div 2
       IN  ConcatRange(rows, lo, mid) \o ConcatRange(rows, mid + 1, hi)

\* The 0-based indices lo, lo + 1, ..., hi - 1 of a for loop, in order.
Indices(lo, hi) == IF hi > lo THEN [k \in 1..(hi - lo) |-> lo + k - 1] ELSE <<>>

\* The 0-based element read points[i] of the source.
At(points, i) == points[i + 1]

\* A point given in metres.
Pt(mx, mz) == [x |-> mx * UNIT, z |-> mz * UNIT]

\* ------------------------------------------------------------------------
\* Geometry Kernel (src/lib/track/TrackGeometryUtils.ts)
\* ------------------------------------------------------------------------

distance(p1, p2) ==
  LET dx == p2.x - p1.x
      dz == p2.z - p1.z
  IN  Sqrt(dx * dx + dz * dz)

crossProduct(p1, p2, p3) ==
  (p2.x - p1.x) * (p3.z - p1.z) - (p2.z - p1.z) * (p3.x - p1.x)

\* q lies in the bounding box of p and r
onSegment(p, q, r) ==
  /\ q.x <= Max(p.x, r.x) /\ q.x >= Min(p.x, r.x)
  /\ q.z <= Max(p.z, r.z) /\ q.z >= Min(p.z, r.z)

\* An intersection test that sees only the end points of seg1 on seg2.
OneSidedIntersect(seg1, seg2) ==
  \/ crossProduct(seg2.start, seg2.end, seg1.start) = 0
     /\ onSegment(seg2.start, seg1.start, seg2.end)
  \/ crossProduct(seg2.start, seg2.end, seg1.end) = 0
     /\ onSegment(seg2.start, seg1.end, seg2.end)

segmentsIntersect(seg1, seg2) ==
  LET d1 == crossProduct(seg2.start, seg2.end, seg1.start)
      d2 == crossProduct(seg2.start, seg2.end, seg1.end)
      d3 == crossProduct(seg1.start, seg1.end, seg2.start)
      d4 == crossProduct(seg1.start, seg1.end, seg2.end)
  IN  \/ /\ (d1 > 0 /\ d2 < 0) \/ (d1 < 0 /\ d2 > 0)
         /\ (d3 > 0 /\ d4 < 0) \/ (d3 < 0 /\ d4 > 0)
      \/ d1 = 0 /\ onSegment(seg2.start, seg1.start, seg2.end)
      \/ d2 = 0 /\ onSegment(seg2.start, seg1.end, seg2.end)
      \/ d3 = 0 /\ onSegment(seg1.start, seg2.start, seg1.end)
      \/ d4 = 0 /\ onSegment(seg1.start, seg2.end, seg1.end)

calculatePathLength(points, closed) ==
  IF Len(points) < 2 THEN 0
  ELSE SumSeq([i \in 1..(Len(points) - 1) |-> distance(At(points, i - 1), At(points, i))])
       + (IF closed /\ Len(points) > 2
          THEN distance(At(points, Len(points) - 1), At(points, 0))
          ELSE 0)

\* The return value of calculateBounds.
Bounds(minX, maxX, minZ, maxZ) ==
  [minX |-> minX, maxX |-> maxX, minZ |-> minZ, maxZ |-> maxZ,
   width |-> maxX - minX, height |-> maxZ - minZ]

\* The x and the z coordinates of the points.
Xs(path) == [i \in 1..Len(path) |-> path[i].x]

Zs(path) == [i \in 1..Len(path) |-> path[i].z]

calculateBounds(points) ==
  IF Len(points) = 0
  THEN Bounds(0, 0, 0, 0)
  ELSE Bounds(MinSeq(Xs(points)), MaxSeq(Xs(points)), MinSeq(Zs(points)), MaxSeq(Zs(points)))

\* A call that ended in an exception, and one that returned value.
Thrown == [threw |-> TRUE]

Returns(value) == [threw |-> FALSE, value |-> value]

\* return null
NoIntersection == [null |-> TRUE]

\* 0 < num / denom < 1: an interval without its two ends.
InOpenInterval(num, denom) ==
  IF denom > 0 THEN 0 < num /\ num < denom ELSE denom < num /\ num < 0

\* 0 <= num / denom <= 1, for denom # 0
InUnitInterval(num, denom) ==
  IF denom > 0 THEN 0 <= num /\ num <= denom ELSE denom <= num /\ num <= 0

\* The point of seg1 at t = tNum / denom, when t and u = uNum / denom both
\* lie in [0, 1]; else null.
IntersectionAt(seg1, tNum, uNum, denom) ==
  IF InUnitInterval(tNum, denom) /\ InUnitInterval(uNum, denom)
  THEN [x |-> seg1.start.x + Scale(seg1.end.x - seg1.start.x, Abs(tNum), Abs(denom)),
        z |-> seg1.start.z + Scale(seg1.end.z - seg1.start.z, Abs(tNum), Abs(denom))]
  ELSE NoIntersection

getSegmentIntersection(seg1, seg2) ==
  IF (seg1.start.x - seg1.end.x) * (seg2.start.z - seg2.end.z)
       - (seg1.start.z - seg1.end.z) * (seg2.start.x - seg2.end.x) = 0
  THEN Returns(NoIntersection)
  ELSE Returns(IntersectionAt(
         seg1,
         (seg1.start.x - seg2.start.x) * (seg2.start.z - seg2.end.z)
           - (seg1.start.z - seg2.start.z) * (seg2.start.x - seg2.end.x),
         -((seg1.start.x - seg1.end.x) * (seg1.start.z - seg2.start.z)
           - (seg1.start.z - seg1.end.z) * (seg1.start.x - seg2.start.x)),
         (seg1.start.x - seg1.end.x) * (seg2.start.z - seg2.end.z)
           - (seg1.start.z - seg1.end.z) * (seg2.start.x - seg2.end.x)))

\* seg.start + t * (dx, dz) for t = dot / lengthSq clamped to [0, 1]
ProjectionOn(seg, dot, lengthSq) ==
  IF dot <= 0 THEN seg.start
  ELSE IF dot >= lengthSq THEN seg.end
  ELSE [x |-> seg.start.x + Scale(seg.end.x - seg.start.x, dot, lengthSq),
        z |-> seg.start.z + Scale(seg.end.z - seg.start.z, dot, lengthSq)]

pointToSegmentDistance(point, seg) ==
  IF seg.start.x = seg.end.x /\ seg.start.z = seg.end.z
  THEN Returns(distance(point, seg.start))
  ELSE Returns(distance(point,
         ProjectionOn(seg,
                      (point.x - seg.start.x) * (seg.end.x - seg.start.x)
                      + (point.z - seg.start.z) * (seg.end.z - seg.start.z),
                      (seg.end.x - seg.start.x) * (seg.end.x - seg.start.x)
                      + (seg.end.z - seg.start.z) * (seg.end.z - seg.start.z))))

\* sumX / points.length and sumZ / points.length, to the nearest unit
calculateCentroid(points) ==
  IF Len(points) = 0 THEN Returns([x |-> 0, z |-> 0])
  ELSE Returns([x |-> RoundDiv(SumSeq(Xs(points)), Len(points)),
                z |-> RoundDiv(SumSeq(Zs(points)), Len(points))])

\* i % n of JavaScript; i % 0 is NaN, the index of no element, kept as -1.
Wrapped(i, n) == IF n = 0 THEN -1 ELSE JsMod(i, n)

\* prevIndex and nextIndex of getTangentAtIndex
TangentIndices(n, index, closed) ==
  IF closed
  THEN [prev |-> Wrapped(index - 1 + n, n), next |-> Wrapped(index + 1, n)]
  ELSE [prev |-> Max(0, index - 1), next |-> Min(n - 1, index + 1)]

\* points[i] is an element; outside the array it is undefined.
HasElement(points, i) == i >= 0 /\ i < Len(points)

\* The unit vector from prev to next, in 1/TrigScale; (1, 0) when the two
\* coincide.
Tangent(prev, next, length) ==
  IF length = 0 THEN [x |-> TrigScale, z |-> 0]
  ELSE [x |-> Scale(next.x - prev.x, TrigScale, length),
        z |-> Scale(next.z - prev.z, TrigScale, length)]

\* Reading .x of points[nextIndex] or points[prevIndex] throws a TypeError
\* when the element is undefined.
TangentBetween(points, indices) ==
  IF ~HasElement(points, indices.next) \/ ~HasElement(points, indices.prev)
  THEN Thrown
  ELSE Returns(Tangent(At(points, indices.prev), At(points, indices.next),
                       distance(At(points, indices.prev), At(points, indices.next))))

getTangentAtIndex(points, index, closed) ==
  TangentBetween(points, TangentIndices(Len(points), index, closed))

\* ------------------------------------------------------------------------
\* Curvature Analyzer (src/unnamed/part_002)
\* ------------------------------------------------------------------------

\* Track width constants, in metres
MIN_WIDTH == 10
MAX_WIDTH == 18
STRAIGHT_WIDTH == 18
HAIRPIN_WIDTH == 10

\* Speed limit constants, in km/h
HAIRPIN_SPEED == 50
TIGHT_SPEED == 80
MEDIUM_SPEED == 120
GENTLE_SPEED == 150
STRAIGHT_SPEED == 180

\* Curvature thresholds 0.01, 0.03, 0.06 and 0.1 per metre
CURVATURE_STRAIGHT == CurvScale \div 100
CURVATURE_GENTLE == (3 * CurvScale) \div 100
CURVATURE_MEDIUM == (6 * CurvScale) \div 100
CURVATURE_TIGHT == CurvScale \div 10

\* A curvature that divides by the first side twice: 4 * area / (a * a * c).
FirstSideCurvature(a, b, c, twiceArea) ==
  IF a < 1 \/ b < 1 \/ c < 1 THEN 0
  ELSE MulDiv(MulDiv(MulDiv(2 * twiceArea, CurvScale \div UNIT, a), UNIT, a), UNIT, c)

\* Menger curvature 4 * area / (a * b * c) of three points, per metre.
\* a * b is the same number as b * a: the quotient by the larger of the
\* two is taken first.
MengerCurvature(a, b, c, twiceArea) ==
  IF a < 1 \/ b < 1 \/ c < 1 THEN 0
  ELSE MulDiv(MulDiv(MulDiv(2 * twiceArea, CurvScale \div UNIT, Max(a, b)),
                     UNIT, Min(a, b)),
              UNIT, c)

calculatePointCurvature(p0, p1, p2) ==
  MengerCurvature(distance(p0, p1), distance(p1, p2), distance(p0, p2),
                  Abs((p1.x - p0.x) * (p2.z - p0.z) - (p2.x - p0.x) * (p1.z - p0.z)))

calculateCurvature(points, closed) ==
  LET n == Len(points)
  IN  IF n < 3 THEN Array([i \in 1..n |-> 0])
      ELSE Array([k \in 1..n |->
             LET i == k - 1
                 prevIdx == IF closed THEN (i - 1 + n) % n ELSE Max(0, i - 1)
                 nextIdx == IF closed THEN (i + 1) % n ELSE Min(n - 1, i + 1)
             IN  calculatePointCurvature(At(points, prevIdx), At(points, i), At(points, nextIdx))])

\* Centred moving average, wrapping around the ends.
smoothCurvature(curvatures, windowSize) ==
  LET n == Len(curvatures)
      halfWindow == windowSize \div 2
  IN  Array([k \in 1..n |->
        LET i == k - 1
            window == [w \in 1..(2 * halfWindow + 1) |->
                        At(curvatures, JsMod(i + (w - 1 - halfWindow) + n, n))]
        IN  RoundDiv(SumSeq(window), Len(window))])

classifyTurnType(curvature) ==
  IF curvature < CURVATURE_STRAIGHT THEN "straight"
  ELSE IF curvature < CURVATURE_GENTLE THEN "gentle"
  ELSE IF curvature < CURVATURE_MEDIUM THEN "medium"
  ELSE IF curvature < CURVATURE_TIGHT THEN "tight"
  ELSE "hairpin"

\* A width that steps down at the two thresholds and is level between them.
SteppedWidth(curvature) ==
  IF curvature < CURVATURE_STRAIGHT THEN STRAIGHT_WIDTH * UNIT
  ELSE IF curvature >= CURVATURE_TIGHT THEN HAIRPIN_WIDTH * UNIT
  ELSE ((MAX_WIDTH + MIN_WIDTH) \div 2) * UNIT

\* Suggested width, in units.
calculateSuggestedWidth(curvature) ==
  IF curvature < CURVATURE_STRAIGHT THEN STRAIGHT_WIDTH * UNIT
  ELSE IF curvature >= CURVATURE_TIGHT THEN HAIRPIN_WIDTH * UNIT
  ELSE MAX_WIDTH * UNIT
       - RoundDiv((curvature - CURVATURE_STRAIGHT) * (MAX_WIDTH - MIN_WIDTH) * UNIT,
                  CURVATURE_TIGHT - CURVATURE_STRAIGHT)

calculateSuggestedSpeed(curvature) ==
  LET turnType == classifyTurnType(curvature)
  IN  CASE turnType = "straight" -> STRAIGHT_SPEED
        [] turnType = "gentle" -> GENTLE_SPEED
        [] turnType = "medium" -> MEDIUM_SPEED
        [] turnType = "tight" -> TIGHT_SPEED
        [] turnType = "hairpin" -> HAIRPIN_SPEED

\* One CurvatureData per point; suggestedWidth is a whole number of metres,
\* kept in units.
CurvatureData(curvature) ==
  [curvature |-> curvature,
   suggestedWidth |-> RoundDiv(calculateSuggestedWidth(curvature), UNIT) * UNIT,
   suggestedSpeed |-> RoundDiv(calculateSuggestedSpeed(curvature), 10) * 10,
   turnType |-> classifyTurnType(curvature)]

\* smoothedCurvatures.map(...)
MapCurvatureData(smoothedCurvatures) ==
  Array([k \in 1..Len(smoothedCurvatures) |-> CurvatureData(smoothedCurvatures[k])])

analyzeTrackCurvature(points) ==
  MapCurvatureData(smoothCurvature(calculateCurvature(points, TRUE), 5))

TurnTypes == {"straight", "gentle", "medium", "tight", "hairpin"}

\* One iteration of the loop of countTurnsByType, from the loop state st:
\* the index i, inTurn and counts.
CountTurnsStep(curvatureData, st) ==
  LET prevType == At(curvatureData, st.i - 1).turnType
      currType == At(curvatureData, st.i).turnType
  IN  IF prevType = "straight" /\ currType # "straight"
      THEN [st EXCEPT !.i = @ + 1, !.inTurn = TRUE]
      ELSE IF st.inTurn /\ (currType = "straight" \/ currType # prevType)
      THEN [i |-> st.i + 1,
            inTurn |-> currType # "straight",
            counts |-> [st.counts EXCEPT ![prevType] = @ + 1]]
      ELSE [st EXCEPT !.i = @ + 1]

\* The iterations st.i, ..., last of the loop, run in order, half by half.
RECURSIVE CountTurnsLoop(_, _, _)
CountTurnsLoop(curvatureData, st, last) ==
  IF st.i > last THEN st
  ELSE IF st.i = last THEN CountTurnsStep(curvatureData, st)
  ELSE LET half == CountTurnsLoop(curvatureData, st, (st.i + last) \div 2)
       IN  CountTurnsLoop(curvatureData, half, last)

\* The state before the loop.
CountTurnsStart(curvatureData) ==
  [i |-> 1,
   inTurn |-> IF Len(curvatureData) > 0
              THEN curvatureData[1].turnType # "straight"
              ELSE FALSE,
   counts |-> [t \in TurnTypes |-> 0]]

\* A count that leaves out the turn the track ends in.
NoFinalTurn(curvatureData, st) == st.counts

\* Count the final turn if the track ends in one.
CountFinalTurn(curvatureData, st) ==
  IF st.inTurn
  THEN [st.counts EXCEPT ![At(curvatureData, Len(curvatureData) - 1).turnType] = @ + 1]
  ELSE st.counts

CountTurns(curvatureData) ==
  CountFinalTurn(curvatureData,
                 CountTurnsLoop(curvatureData, CountTurnsStart(curvatureData),
                                Len(curvatureData) - 1))

countTurnsByType(points) == CountTurns(analyzeTrackCurvature(points))

\* The grading of estimateDifficulty on the counts of countTurnsByType.
DifficultyOf(turnCounts) ==
  LET totalTurns == turnCounts["tight"] + turnCounts["hairpin"] + turnCounts["medium"]
      difficultTurns == turnCounts["tight"] + turnCounts["hairpin"]
  IN  IF difficultTurns >= 5 \/ turnCounts["hairpin"] >= 3 THEN "expert"
      ELSE IF difficultTurns >= 3 \/ totalTurns >= 8 THEN "hard"
      ELSE IF difficultTurns >= 1 \/ totalTurns >= 5 THEN "medium"
      ELSE "easy"

estimateDifficulty(points) == DifficultyOf(countTurnsByType(points))

\* ------------------------------------------------------------------------
\* Track Validator (src/lib/track/TrackValidator.ts)
\* ------------------------------------------------------------------------

\* Validation constants, in metres (INTERSECTION_SKIP_COUNT in segments)
MIN_TRACK_LENGTH == 200
MAX_TRACK_LENGTH == 5000
MIN_POINT_COUNT == 8
MAX_CLOSURE_DISTANCE == 20
MIN_SEGMENT_LENGTH == 4
MIN_TRACK_WIDTH == 8
INTERSECTION_SKIP_COUNT == 2

\* The value Infinity, above every length the model forms.
Infinity == 2147483647

\* The optional parameter widths?: number[]
NoWidths == [given |-> FALSE, values |-> <<>>]

Widths(ws) == [given |-> TRUE, values |-> ws]

\* location of an error that attaches none, and points[-1] of an empty array
NoLocation == [undefined |-> TRUE]

Segment(points, i, j) == [start |-> At(points, i), end |-> At(points, j)]

\* The end index of segment j: the closing segment returns to point 0.
NextJ(n, closed, j) == IF j = n - 1 /\ closed THEN 0 ELSE j + 1

\* The two "continue" statements of the inner loop.
SkipsPair(n, closed, i, j) ==
  \/ closed /\ i = 0 /\ j = n - 1
  \/ NextJ(n, closed, j) >= n /\ ~closed

\* The pairs (i, j) of segments the nested loops hand to segmentsIntersect.
TestedPairs(n, closed) ==
  {pair \in (0..(n - 2)) \X (0..(n - 1)) :
     /\ pair[2] >= pair[1] + INTERSECTION_SKIP_COUNT + 1
     /\ pair[2] < (IF closed THEN n ELSE n - 1)
     /\ ~SkipsPair(n, closed, pair[1], pair[2])}

\* The approximate intersection point: the mean of the four end points.
ApproxIntersection(seg1, seg2) ==
  [x |-> RoundDiv(seg1.start.x + seg1.end.x + seg2.start.x + seg2.end.x, 4),
   z |-> RoundDiv(seg1.start.z + seg1.end.z + seg2.start.z + seg2.end.z, 4)]

\* The intersections the inner loop pushes for segment i, in the order of j.
InnerLoop(points, closed, i) ==
  LET n == Len(points)
      startJ == i + INTERSECTION_SKIP_COUNT + 1
      endJ == IF closed THEN n ELSE n - 1
      seg1 == Segment(points, i, i + 1)
      Seg2(j) == Segment(points, j, NextJ(n, closed, j))
      Hit(j) == ~SkipsPair(n, closed, i, j) /\ segmentsIntersect(seg1, Seg2(j))
      hits == SelectSeq(Indices(startJ, endJ), Hit)
  IN  [k \in 1..Len(hits) |-> ApproxIntersection(seg1, Seg2(hits[k]))]

findSelfIntersections(points, closed) ==
  LET n == Len(points)
  IN  ConcatRange([k \in 1..(n - 1) |-> InnerLoop(points, closed, k - 1)], 1, n - 1)

closureDistance(points) ==
  IF Len(points) >= 2
  THEN distance(At(points, 0), At(points, Len(points) - 1))
  ELSE Infinity

IsClosed(points) == closureDistance(points) <= MAX_CLOSURE_DISTANCE * UNIT

\* A closure check that reads both end points whatever the length.
ClosureReadsUnguarded(points) == {0, Len(points) - 1}

\* The elements of points whose fields the closure check reads.
ClosureReads(points) ==
  IF Len(points) >= 2 THEN {0, Len(points) - 1} ELSE {}

\* The elements of points whose fields the other checks read.
OtherReads(points) ==
  LET n == Len(points)
      closed == IsClosed(points)
  IN  UNION {
        IF n < 2 THEN {} ELSE 0..(n - 1),                       \* calculatePathLength
        UNION {{pair[1], pair[1] + 1, pair[2], NextJ(n, closed, pair[2])} :
               pair \in TestedPairs(n, closed)},                \* findSelfIntersections
        UNION {{i, i + 1} : i \in 0..(n - 2)},                  \* segment lengths
        IF n < 3 THEN {}
        ELSE UNION {{(i - 1 + n) % n, i, (i + 1) % n} : i \in 0..(n - 1)},  \* curvature
        0..(n - 1)}                                             \* calculateBounds

\* A field read of an element outside the array is a TypeError.
Throws(points) ==
  \E i \in ClosureReads(points) \cup OtherReads(points) : i \notin 0..(Len(points) - 1)

TooFewPointsErrors(points) ==
  IF Len(points) < MIN_POINT_COUNT
  THEN <<[type |-> "too_few_points", location |-> NoLocation]>>
  ELSE <<>>

\* A validator without the closure check.
NoClosureCheck(points) == <<>>

NotClosedErrors(points) ==
  IF ~IsClosed(points)
  THEN <<[type |-> "not_closed",
          location |-> IF Len(points) > 0 THEN At(points, Len(points) - 1) ELSE NoLocation]>>
  ELSE <<>>

\* A validator without the minimum length check.
NoMinimumLength(length) == <<>>

TooShortErrors(length) ==
  IF length < MIN_TRACK_LENGTH * UNIT
  THEN <<[type |-> "too_short", location |-> NoLocation]>>
  ELSE <<>>

TooLongWarnings(length) ==
  IF length > MAX_TRACK_LENGTH * UNIT
  THEN <<[type |-> "too_long"]>>
  ELSE <<>>

\* One error of the given type for each location.
ErrorsAt(type, locations) ==
  [k \in 1..Len(locations) |-> [type |-> type, location |-> locations[k]]]

SelfIntersectionErrors(points, isClosed) ==
  ErrorsAt("self_intersection", findSelfIntersections(points, isClosed))

\* points[i] for each index i of indices
PointsAt(points, indices) == [k \in 1..Len(indices) |-> At(points, indices[k])]

\* A validation without the segment length check.
NoSegmentLengthCheck(points) == <<>>

SegmentLengthErrors(points) ==
  LET TooShort(i) == distance(At(points, i), At(points, i + 1)) < MIN_SEGMENT_LENGTH * UNIT
  IN  ErrorsAt("invalid_geometry",
               PointsAt(points, SelectSeq(Indices(0, Len(points) - 1), TooShort)))

WidthErrors(widths) ==
  IF widths.given /\ Len(widths.values) > 0 /\ MinSeq(widths.values) < MIN_TRACK_WIDTH * UNIT
  THEN <<[type |-> "too_narrow", location |-> NoLocation]>>
  ELSE <<>>

IsHairpin(c) == c.turnType = "hairpin"

IsStraight(c) == c.turnType = "straight"

IsTurn(c) == c.turnType # "straight"

\* curvatureData.filter(...).length
hairpinCount(curvatureData) == Len(SelectSeq(curvatureData, IsHairpin))

straightCount(curvatureData) == Len(SelectSeq(curvatureData, IsStraight))

turnCount(curvatureData) == Len(SelectSeq(curvatureData, IsTurn))

WarningsFor(points, hairpins, straights) ==
  (IF 10 * hairpins > 3 * Len(points)
   THEN <<[type |-> "very_tight_turn"]>> ELSE <<>>)
  \o (IF straights = 0 /\ Len(points) > 10
      THEN <<[type |-> "no_straights"]>> ELSE <<>>)

CurvatureWarnings(points, curvatureData) ==
  WarningsFor(points, hairpinCount(curvatureData), straightCount(curvatureData))

\* { width: bounds.width, height: bounds.height }
WidthAndHeight(bounds) == [width |-> bounds.width, height |-> bounds.height]

TrackStats(points, widths, length, isClosed, curvatureData) ==
  LET hasWidths == widths.given /\ Len(widths.values) > 0
  IN  [length |-> length,
       pointCount |-> Len(points),
       turnCount |-> RoundDiv(turnCount(curvatureData), 5),
       avgWidth |-> IF hasWidths
                    THEN RoundDiv(SumSeq(widths.values), Len(widths.values))
                    ELSE 14 * UNIT,
       minWidth |-> IF hasWidths THEN MinSeq(widths.values) ELSE 14 * UNIT,
       difficulty |-> estimateDifficulty(points),
       bounds |-> WidthAndHeight(calculateBounds(points)),
       isClosed |-> isClosed]

\* A validator that accepts only a track without any finding.
IsValidWithoutWarnings(errors, warnings) == Len(errors) = 0 /\ Len(warnings) = 0

IsValid(errors, warnings) == Len(errors) = 0

\* A validator that returns from the first check that fails.
StopAtFirstFailure(checks) ==
  LET Failed(k) == Len(checks[k]) > 0
      failed == SelectSeq(Indices(1, Len(checks) + 1), Failed)
  IN  IF Len(failed) = 0 THEN <<>> ELSE checks[failed[1]]

\* errors.push(...) of every check, in the order the checks run
ReportAll(checks) == ConcatRange(checks, 1, Len(checks))

\* The ValidationResult returned.
ValidationResult(errors, warnings, stats) ==
  [threw |-> FALSE,
   isValid |-> IsValid(errors, warnings),
   errors |-> errors,
   warnings |-> warnings,
   stats |-> stats]

\* The checks, on the closure flag, the path length and the curvature data
\* that validateTrack computes once.
RunChecks(points, widths, isClosed, length, curvatureData) ==
  ValidationResult(
    ReportAll(<<TooFewPointsErrors(points),
                NotClosedErrors(points),
                TooShortErrors(length),
                SelfIntersectionErrors(points, isClosed),
                SegmentLengthErrors(points),
                WidthErrors(widths)>>),
    TooLongWarnings(length) \o CurvatureWarnings(points, curvatureData),
    TrackStats(points, widths, length, isClosed, curvatureData))

validateTrack(points, widths) ==
  IF Throws(points) THEN [threw |-> TRUE]
  ELSE RunChecks(points, widths, IsClosed(points),
                 calculatePathLength(points, IsClosed(points)),
                 analyzeTrackCurvature(points))

\* ------------------------------------------------------------------------
\* Path Processor (src/unnamed/part_001)
\* ------------------------------------------------------------------------

\* undefined: an element read outside an array
Undefined == [undefined |-> TRUE]

\* One iteration of the loop of filterMinDistance, from the loop state st:
\* the index i and the array filtered.
FilterStep(path, minDistance, st) ==
  [i |-> st.i + 1,
   filtered |-> IF distance(At(path, st.i), st.filtered[Len(st.filtered)]) >= minDistance
                THEN Append(st.filtered, At(path, st.i))
                ELSE st.filtered]

RECURSIVE FilterLoop(_, _, _)
FilterLoop(path, minDistance, st) ==
  IF st.i >= Len(path) THEN st.filtered
  ELSE FilterLoop(path, minDistance, FilterStep(path, minDistance, st))

filterMinDistance(path, minDistance) ==
  IF Len(path) = 0 THEN <<>>
  ELSE FilterLoop(path, minDistance, [i |-> 1, filtered |-> <<path[1]>>])

\* lineStart + t * (dx, dz) for t = dot / lineLengthSq clamped to [0, 1]
Projection(lineStart, lineEnd, dot, lineLengthSq) ==
  IF dot <= 0 THEN lineStart
  ELSE IF dot >= lineLengthSq THEN lineEnd
  ELSE [x |-> lineStart.x + Scale(lineEnd.x - lineStart.x, dot, lineLengthSq),
        z |-> lineStart.z + Scale(lineEnd.z - lineStart.z, dot, lineLengthSq)]

\* The distance from point to the segment from lineStart to lineEnd.
perpendicularDistance(point, lineStart, lineEnd) ==
  IF lineStart.x = lineEnd.x /\ lineStart.z = lineEnd.z
  THEN distance(point, lineStart)
  ELSE distance(point,
                Projection(lineStart, lineEnd,
                           (point.x - lineStart.x) * (lineEnd.x - lineStart.x)
                           + (point.z - lineStart.z) * (lineEnd.z - lineStart.z),
                           (lineEnd.x - lineStart.x) * (lineEnd.x - lineStart.x)
                           + (lineEnd.z - lineStart.z) * (lineEnd.z - lineStart.z)))

\* dist of the loop of douglasPeucker, for the indices 1 to length - 2
Deviations(path) ==
  Array([i \in 1..(Len(path) - 2) |->
          perpendicularDistance(At(path, i), At(path, 0), At(path, Len(path) - 1))])

\* A split at the middle point between the ends, whatever its deviation.
MiddleDeviation(dists) ==
  IF Len(dists) = 0 THEN [maxDist |-> 0, maxIndex |-> 0]
  ELSE [maxDist |-> dists[(Len(dists) + 1) \div 2],
        maxIndex |-> (Len(dists) + 1) \div 2]

\* maxDist and maxIndex after the loop: the first index of the largest
\* deviation above 0, else 0 and 0.
MaxDeviation(dists) ==
  IF Len(dists) = 0 \/ MaxSeq(dists) <= 0 THEN [maxDist |-> 0, maxIndex |-> 0]
  ELSE [maxDist |-> MaxSeq(dists),
        maxIndex |-> CHOOSE i \in 1..Len(dists) :
                       /\ dists[i] = MaxSeq(dists)
                       /\ \A j \in 1..(i - 1) : dists[j] < dists[i]]

\* A join that leaves the split point out of both halves.
JoinWithoutSplit(left, right) == SubSeq(left, 1, Len(left) - 1) \o Tail(right)

\* [...left.slice(0, -1), ...right]
JoinHalves(left, right) == SubSeq(left, 1, Len(left) - 1) \o right

RECURSIVE douglasPeucker(_, _)

\* The second half of douglasPeucker, on the largest deviation found.
Simplify(path, tolerance, max) ==
  IF max.maxDist > tolerance
  THEN JoinHalves(douglasPeucker(SubSeq(path, 1, max.maxIndex + 1), tolerance),
                  douglasPeucker(SubSeq(path, max.maxIndex + 1, Len(path)), tolerance))
  ELSE <<At(path, 0), At(path, Len(path) - 1)>>

douglasPeucker(path, tolerance) ==
  IF Len(path) <= 2 THEN path
  ELSE Simplify(path, tolerance, MaxDeviation(Deviations(path)))

\* The average of the two end points replaces the first point; the last
\* point is dropped.
MergeEnds(path) ==
  <<[x |-> RoundDiv(At(path, 0).x + At(path, Len(path) - 1).x, 2),
     z |-> RoundDiv(At(path, 0).z + At(path, Len(path) - 1).z, 2)]>>
  \o SubSeq(path, 2, Len(path) - 1)

\* closureDistance <= threshold && closureDistance > 0
EndsMerge(gap, threshold) == gap <= threshold /\ gap > 0

tryAutoClose(path, threshold) ==
  IF Len(path) < 3 THEN path
  ELSE IF EndsMerge(distance(At(path, 0), At(path, Len(path) - 1)), threshold)
  THEN MergeEnds(path)
  ELSE path

\* p1 + t * (p2 - p1) for t = (targetDist - accumulatedDist) / segmentLength;
\* a segment of length 0 makes t, and the point, NaN.
AlongSegment(p1, p2, offset, segmentLength) ==
  IF segmentLength = 0 THEN [nan |-> TRUE]
  ELSE [x |-> p1.x + Scale(p2.x - p1.x, offset, segmentLength),
        z |-> p1.z + Scale(p2.z - p1.z, offset, segmentLength)]

\* segmentLength of each segment the loop of interpolateAlongPath visits
SegmentLengths(path, closed) ==
  Array([k \in 1..(IF closed THEN Len(path) ELSE Len(path) - 1) |->
          distance(At(path, k - 1), At(path, k % Len(path)))])

\* accumulatedDist when the loop reaches each segment
SegmentStarts(lengths) ==
  Array([k \in 1..Len(lengths) |-> SumRange(lengths, 1, k - 1)])

\* The segments whose end lies at or beyond targetDist, in order.
Reaching(targetDist, lengths, starts) ==
  SelectSeq([k \in 1..Len(lengths) |-> k],
            LAMBDA k : starts[k] + lengths[k] >= targetDist)

\* The return of interpolateAlongPath, given the segments that reach
\* targetDist: a point of the first of them, else points[0].
InterpolateIn(path, targetDist, lengths, starts, reaching) ==
  IF Len(reaching) = 0
  THEN IF Len(path) > 0 THEN At(path, 0) ELSE Undefined
  ELSE AlongSegment(At(path, reaching[1] - 1), At(path, reaching[1] % Len(path)),
                    targetDist - starts[reaching[1]], lengths[reaching[1]])

\* interpolateAlongPath on the lengths and the starts of the segments
InterpolateAt(path, targetDist, lengths, starts) ==
  InterpolateIn(path, targetDist, lengths, starts,
                Reaching(targetDist, lengths, starts))

interpolateAlongPath(path, targetDist, closed) ==
  InterpolateAt(path, targetDist, SegmentLengths(path, closed),
                SegmentStarts(SegmentLengths(path, closed)))

\* A resampling without the floor of 8 points.
RoundedCount(totalLength, targetSpacing) == RoundDiv(totalLength, targetSpacing)

\* Math.max(8, Math.round(totalLength / targetSpacing))
NumPoints(totalLength, targetSpacing) == Max(8, RoundDiv(totalLength, targetSpacing))

\* The points at the distances (i / numPoints) * totalLength; lengths and
\* starts are those of the segments interpolateAlongPath walks.
Resampled(path, totalLength, numPoints, lengths, starts) ==
  Array([k \in 1..numPoints |->
          InterpolateAt(path, RoundDiv((k - 1) * totalLength, numPoints),
                        lengths, starts)])

resamplePath(path, targetSpacing, closed) ==
  Resampled(path, calculatePathLength(path, closed),
            NumPoints(calculatePathLength(path, closed), targetSpacing),
            SegmentLengths(path, closed),
            SegmentStarts(SegmentLengths(path, closed)))

\* factor, in hundredths
laplacianSmooth(path, closed, factor) ==
  LET n == Len(path)
  IN  IF n < 3 THEN path
      ELSE Array([k \in 1..n |->
             LET i == k - 1
                 prev == IF closed THEN At(path, (i - 1 + n) % n) ELSE At(path, Max(0, i - 1))
                 curr == At(path, i)
                 next == IF closed THEN At(path, (i + 1) % n) ELSE At(path, Min(n - 1, i + 1))
             IN  IF ~closed /\ (i = 0 \/ i = n - 1) THEN curr
                 ELSE [x |-> curr.x + RoundDiv((prev.x + next.x - 2 * curr.x) * factor, 200),
                       z |-> curr.z + RoundDiv((prev.z + next.z - 2 * curr.z) * factor, 200)]])

\* The spline at t = k / segments: 0.5 * (2 p1 + (-p0 + p2) t
\* + (2 p0 - 5 p1 + 4 p2 - p3) t^2 + (-p0 + 3 p1 - 3 p2 + p3) t^3)
catmullRomCoordinate(c0, c1, c2, c3, k, segments) ==
  RoundDiv(2 * c1 * segments * segments * segments
           + (c2 - c0) * k * segments * segments
           + (2 * c0 - 5 * c1 + 4 * c2 - c3) * k * k * segments
           + (3 * c1 - c0 - 3 * c2 + c3) * k * k * k,
           2 * segments * segments * segments)

catmullRomPoint(p0, p1, p2, p3, k, segments) ==
  [x |-> catmullRomCoordinate(p0.x, p1.x, p2.x, p3.x, k, segments),
   z |-> catmullRomCoordinate(p0.z, p1.z, p2.z, p3.z, k, segments)]

catmullRomSmooth(path, segments) ==
  LET n == Len(path)
  IN  IF n < 4 THEN path
      ELSE Array([k \in 1..(n * segments) |->
             LET i == (k - 1) \div segments
                 t == (k - 1) % segments
             IN  catmullRomPoint(At(path, (i - 1 + n) % n), At(path, i),
                                 At(path, (i + 1) % n), At(path, (i + 2) % n),
                                 t, segments)])

\* Marks at the quarters of a track of any length.
AnyLengthMarked(n) == {0, n \div 4, (n \div 4) * 2, (n \div 4) * 3}

\* The indices marked as checkpoints: roughly every quarter of the track.
Checkpoints(n) ==
  IF n >= 4 THEN {0, n \div 4, (n \div 4) * 2, (n \div 4) * 3} ELSE {}

\* points.map(...) and the checkpoint marks
MapWaypoints(path, curvatureData) ==
  Array([k \in 1..Len(path) |->
    [x |-> path[k].x,
     z |-> path[k].z,
     width |-> curvatureData[k].suggestedWidth,
     speedLimit |-> curvatureData[k].suggestedSpeed,
     isCheckpoint |-> (k - 1) \in Checkpoints(Len(path))]])

\* width in 1/UNIT metre, speedLimit in km/h
assignTrackProperties(path) == MapWaypoints(path, analyzeTrackCurvature(path))

\* generated.map(wp => ({ x: wp.x, z: wp.z }))
Positions(waypoints) ==
  [k \in 1..Len(waypoints) |-> [x |-> waypoints[k].x, z |-> waypoints[k].z]]

\* generated.map(wp => wp.width)
WidthsOf(waypoints) == Widths([k \in 1..Len(waypoints) |-> waypoints[k].width])

\* ------------------------------------------------------------------------
\* Procedural Track Generator (src/unnamed/part_000)
\* ------------------------------------------------------------------------

Difficulties == {"easy", "medium", "hard", "expert"}

\* DEFAULT_OPTIONS
minPoints == 6
maxPoints == 10
worldSize == 200

\* cos of 0, 15, ..., 90 degrees
CosTable == <<10000, 9659, 8660, 7071, 5000, 2588, 0>>

\* Math.cos and Math.sin of k * 15 degrees
Cos(k) ==
  LET a == k % 24
  IN  IF a <= 6 THEN CosTable[a + 1]
      ELSE IF a <= 12 THEN -CosTable[12 - a + 1]
      ELSE IF a <= 18 THEN -CosTable[a - 12 + 1]
      ELSE CosTable[24 - a + 1]

Sin(k) == Cos(k + 18)

\* Object.values(CORNER_TEMPLATES): points in template units, scale in tenths
CORNER_TEMPLATES ==
  <<[name |-> "Hairpin", scale |-> 12,
     points |-> <<[x |-> 0, z |-> 0], [x |-> 5, z |-> 15], [x |-> 15, z |-> 25],
                  [x |-> 30, z |-> 25], [x |-> 40, z |-> 15], [x |-> 45, z |-> 0]>>],
    [name |-> "Chicane", scale |-> 8,
     points |-> <<[x |-> 0, z |-> 0], [x |-> 15, z |-> 10], [x |-> 25, z |-> 5],
                  [x |-> 40, z |-> 15], [x |-> 55, z |-> 10], [x |-> 70, z |-> 0]>>],
    [name |-> "Sweeper", scale |-> 10,
     points |-> <<[x |-> 0, z |-> 0], [x |-> 20, z |-> 5], [x |-> 40, z |-> 15],
                  [x |-> 60, z |-> 20], [x |-> 80, z |-> 15], [x |-> 100, z |-> 0]>>],
    [name |-> "S-Curve", scale |-> 9,
     points |-> <<[x |-> 0, z |-> 0], [x |-> 15, z |-> 10], [x |-> 30, z |-> 8],
                  [x |-> 45, z |-> -2], [x |-> 60, z |-> -10], [x |-> 75, z |-> -8],
                  [x |-> 90, z |-> 0]>>],
    [name |-> "Kink", scale |-> 10,
     points |-> <<[x |-> 0, z |-> 0], [x |-> 25, z |-> 8], [x |-> 50, z |-> 0]>>]>>

\* The sums of calculateCentroid; the centroid is CentroidSum / points.length.
CentroidSum(path) == [x |-> SumSeq(Xs(path)), z |-> SumSeq(Zs(path))]

\* The vector from the centroid to point p, times the number n of points,
\* in metres: base points lie on whole metres, so the division is exact.
FromCentroid(p, n, sum) ==
  [x |-> (n * p.x - sum.x) \div UNIT,
   z |-> (n * p.z - sum.z) \div UNIT]

\* The vectors from the centroid to each point.
AllFromCentroid(path, sum) ==
  Array([k \in 1..Len(path) |-> FromCentroid(path[k], Len(path), sum)])

\* Where Math.atan2(v.z, v.x) falls: below 0, at 0, between 0 and pi, at pi.
AngleRange(v) ==
  IF v.z < 0 THEN 0
  ELSE IF v.z = 0 /\ v.x >= 0 THEN 1
  ELSE IF v.z > 0 THEN 2
  ELSE 3

\* angleFromCentroid(a) - angleFromCentroid(b) < 0, on the vectors from the
\* centroid
AngleLess(va, vb) ==
  \/ AngleRange(va) < AngleRange(vb)
  \/ AngleRange(va) = AngleRange(vb) /\ va.x * vb.z - va.z * vb.x > 0

\* The number of points a stable sort puts before the k-th.
AngleRank(v, k) ==
  Cardinality({j \in 1..Len(v) :
                 AngleLess(v[j], v[k]) \/ (~AngleLess(v[k], v[j]) /\ j < k)})

\* The points in the order of the angles of their vectors v.
SortByAngle(path, v) ==
  [r \in 1..Len(path) |-> path[CHOOSE k \in 1..Len(path) : AngleRank(v, k) = r - 1]]

\* The points left in the order given.
Unsorted(path) == path

\* [...points].sort(...): a stable sort by the angle from the centroid
sortPointsCounterClockwise(path) ==
  IF Len(path) < 3 THEN path
  ELSE SortByAngle(path, AllFromCentroid(path, CentroidSum(path)))

cornerCounts(difficulty) ==
  CASE difficulty = "easy" -> 1
    [] difficulty = "medium" -> 2
    [] difficulty = "hard" -> 3
    [] difficulty = "expert" -> 4

\* in tenths
difficultyScale(difficulty) ==
  CASE difficulty = "easy" -> 12
    [] difficulty = "medium" -> 10
    [] difficulty = "hard" -> 8
    [] difficulty = "expert" -> 7

\* The interior points of the template, rotated onto the chord from
\* startPoint to endPoint and scaled.  cos(angle) * dist = dx and
\* sin(angle) * dist = dz, so rx * scale = (p.x dx - p.z dz) / 100
\* * template.scale * difficultyScale.
transformCornerTemplate(template, startPoint, endPoint, difficulty) ==
  LET dx == endPoint.x - startPoint.x
      dz == endPoint.z - startPoint.z
      factor == template.scale * difficultyScale(difficulty)
      interior == SubSeq(template.points, 2, Len(template.points) - 1)
  IN  [k \in 1..Len(interior) |->
        LET p == interior[k]
        IN  [x |-> startPoint.x + RoundDiv((p.x * dx - p.z * dz) * factor, 100 * 100),
             z |-> startPoint.z + RoundDiv((p.x * dz + p.z * dx) * factor, 100 * 100)]]

\* The values of 1 + Math.floor(Math.random() * (length - 2)): for a list
\* of two points the product is 0 and the position drawn is 1.
DrawnPositions(length) ==
  IF length > 2 THEN 1..(length - 2) ELSE (length - 1)..1

\* A draw that accepts a position next to one drawn before.
AdjacentAccepted(insertPositions, pos) ==
  \E k \in 1..Len(insertPositions) : insertPositions[k] = pos

\* The condition of the do-while loop that draws an insert position.
PositionRejected(insertPositions, pos) ==
  \E k \in 1..Len(insertPositions) :
    insertPositions[k] \in {pos, pos - 1, pos + 1}

\* insertPositions.sort((a, b) => b - a)
SortDescending(positions) ==
  LET Rank(k) ==
        Cardinality({j \in 1..Len(positions) :
                       positions[j] > positions[k]
                       \/ (positions[j] = positions[k] /\ j < k)})
  IN  [r \in 1..Len(positions) |->
        positions[CHOOSE k \in 1..Len(positions) : Rank(k) = r - 1]]

\* result.splice(pos, 0, ...cornerPoints)
Splice(path, pos, cornerPoints) ==
  SubSeq(path, 1, pos) \o cornerPoints \o SubSeq(path, pos + 1, Len(path))

\* The second loop of insertCornerTemplates from the k-th position on;
\* templates[k] is the template drawn for the k-th position.
RECURSIVE InsertLoop(_, _, _, _, _)
InsertLoop(path, positions, templates, difficulty, k) ==
  IF k > Len(positions) THEN path
  ELSE LET pos == positions[k]
           cornerPoints == transformCornerTemplate(CORNER_TEMPLATES[templates[k]],
                                                   At(path, pos - 1), At(path, pos),
                                                   difficulty)
       IN  InsertLoop(Splice(path, pos, cornerPoints), positions, templates,
                      difficulty, k + 1)

\* Math.floor(dist / minStraightLength) - 1 for a long segment, else none
NumIntermediates(dist, minStraightLength) ==
  IF dist > minStraightLength * 3 THEN dist \div minStraightLength - 1 ELSE 0

\* The points pushed for curr: the intermediates of a long segment, then
\* curr itself.
StraightPoints(prev, curr, numIntermediates) ==
  [j \in 1..numIntermediates |->
    [x |-> prev.x + RoundDiv(j * (curr.x - prev.x), numIntermediates + 1),
     z |-> prev.z + RoundDiv(j * (curr.z - prev.z), numIntermediates + 1)]]
  \o <<curr>>

ensureMinimumStraights(path, size) ==
  <<path[1]>>
  \o ConcatRange([i \in 1..(Len(path) - 1) |->
                    StraightPoints(At(path, i - 1), At(path, i),
                                   NumIntermediates(distance(At(path, i - 1), At(path, i)),
                                                    (size * UNIT) \div 10))],
                 1, Len(path) - 1)

\* Width modifiers that make expert wider than hard, in hundredths.
WiderExpertModifier(difficulty) ==
  CASE difficulty = "easy" -> 120
    [] difficulty = "medium" -> 100
    [] difficulty = "hard" -> 75
    [] difficulty = "expert" -> 85

\* in hundredths
widthModifier(difficulty) ==
  CASE difficulty = "easy" -> 120
    [] difficulty = "medium" -> 100
    [] difficulty = "hard" -> 85
    [] difficulty = "expert" -> 75

\* in tenths
speedModifier(difficulty) ==
  CASE difficulty = "easy" -> 11
    [] difficulty = "medium" -> 10
    [] difficulty = "hard" -> 9
    [] difficulty = "expert" -> 8

\* A difficulty pass that does not clamp what it has rounded.
ScaledOnly(waypoints, difficulty) ==
  [k \in 1..Len(waypoints) |->
    LET wp == waypoints[k]
    IN  [wp EXCEPT
          !.width = RoundDiv(wp.width * widthModifier(difficulty), 100 * UNIT) * UNIT,
          !.speedLimit = RoundDiv(wp.speedLimit * speedModifier(difficulty), 100) * 10]]

adjustDifficulty(waypoints, difficulty) ==
  [k \in 1..Len(waypoints) |->
    LET wp == waypoints[k]
    IN  [wp EXCEPT
          !.width = Max(10, Min(18, RoundDiv(wp.width * widthModifier(difficulty),
                                             100 * UNIT))) * UNIT,
          !.speedLimit = Max(40, Min(180, RoundDiv(wp.speedLimit * speedModifier(difficulty),
                                                   100) * 10))]]

\* null
Null == [null |-> TRUE]

\* An attempt that hands its waypoints on whatever the validation found.
AlwaysPasses(validation) == TRUE

\* validation.isValid, the test of step 7
Passes(validation) == validation.isValid

\* Steps 4 to 6 of attemptTrackGeneration: straights, spline, two smoothings.
SmoothPoints(path, size) ==
  laplacianSmooth(
    laplacianSmooth(catmullRomSmooth(Array(ensureMinimumStraights(path, size)), 5),
                    TRUE, 30),
    TRUE, 20)

\* Steps 7 to 9: null unless the validation passes, else the waypoints
\* adjusted for the difficulty.
AttemptResult(smoothPoints, validation, difficulty) ==
  [valid |-> validation.isValid,
   track |-> IF Passes(validation)
             THEN adjustDifficulty(assignTrackProperties(smoothPoints), difficulty)
             ELSE Null]

\* Steps 4 to 9 on the smoothed points.
ValidateAndAssign(smoothPoints, difficulty) ==
  AttemptResult(smoothPoints, validateTrack(smoothPoints, NoWidths), difficulty)

\* aspectRatio in tenths; the angle of point i is i * 15 degrees.
generateOvalTrack(size, aspectRatio) ==
  LET numPoints == 24
      radiusX == (size * UNIT * 4 * aspectRatio) \div 100
      radiusZ == (size * UNIT * 4) \div 10
  IN  assignTrackProperties(
        Array([k \in 1..numPoints |->
          [x |-> RoundDiv(Cos(k - 1) * radiusX, TrigScale),
           z |-> RoundDiv(Sin(k - 1) * radiusZ, TrigScale)]]))

\* ------------------------------------------------------------------------
\* Outcomes of the random scatter of generateBasePoints
\* ------------------------------------------------------------------------

\* count points on a circle, on whole metres, in the order they were drawn:
\* rays[k] * 15 degrees is the direction of the k-th point.
OnCircle(rays, radius) ==
  [k \in 1..Len(rays) |->
    Pt(RoundDiv(Cos(rays[k]) * radius, TrigScale),
       RoundDiv(Sin(rays[k]) * radius, TrigScale))]

\* One circular outcome for each count from minPoints to maxPoints.
Circular(count) ==
  CASE count = 6 -> OnCircle(<<0, 12, 4, 16, 8, 20>>, 50)
    [] count = 7 -> OnCircle(<<21, 0, 3, 7, 10, 14, 17>>, 55)
    [] count = 8 -> OnCircle(<<0, 3, 6, 9, 12, 15, 18, 21>>, 60)
    [] count = 9 -> OnCircle(<<16, 18, 20, 22, 1, 4, 7, 10, 13>>, 65)
    [] count = 10 -> OnCircle(<<2, 0, 5, 7, 10, 12, 14, 17, 19, 22>>, 65)

\* An outcome that fills the corners of the world: the points sorted last
\* and first are 130 m apart.
Corners ==
  <<Pt(-65, -65), Pt(65, -65), Pt(65, 65), Pt(-65, 65), Pt(0, -65), Pt(0, 65)>>

Scatter(count) ==
  {Circular(count)} \cup (IF count = Len(Corners) THEN {Corners} ELSE {})

\* ------------------------------------------------------------------------
\* Inputs of validateTrack: drawn paths, in metres
\* ------------------------------------------------------------------------

\* how far, in steps of ShiftStep metres, one vertex of a path is moved
MaxShift == 3

\* half the number of rows of the serpentine path
HalfRows == 8

ShiftStep == 27

RowLength == 300

RowGap == 10

\* A square loop of side 2 * half whose last point stops 10 m short of the
\* first.
Loop(half) ==
  <<Pt(0, 0), Pt(half, 0), Pt(2 * half, 0), Pt(2 * half, half), Pt(2 * half, 2 * half),
    Pt(half, 2 * half), Pt(0, 2 * half), Pt(0, half), Pt(0, 10)>>

Ring == Loop(30)

\* A loop of 120 m, below the minimum length.
SmallRing == Loop(15)

\* A loop with a small twist: segment 2 and segment 4 cross at (60, 15).
Twisted ==
  <<Pt(0, 0), Pt(30, 0), Pt(60, 0), Pt(60, 30), Pt(50, 20), Pt(70, 10),
    Pt(70, 60), Pt(30, 60), Pt(0, 60), Pt(0, 30), Pt(0, 10)>>

\* Rows of RowLength metres, RowGap apart, walked back and forth, then a
\* return leg on the left that ends RowGap short of the first point.
Serpentine(rows) ==
  [k \in 1..(2 * rows + 2) |->
    IF k = 2 * rows + 1 THEN Pt(-RowGap, (rows - 1) * RowGap)
    ELSE IF k = 2 * rows + 2 THEN Pt(-RowGap, 0)
    ELSE LET row == (k - 1) \div 2
             atEnd == ((k - 1) % 4) \in {1, 2}
         IN  Pt(IF atEnd THEN RowLength ELSE 0, row * RowGap)]

Shifts ==
  {[x |-> a * ShiftStep * UNIT, z |-> 0] : a \in (-MaxShift)..MaxShift}
  \cup {[x |-> 0, z |-> b * ShiftStep * UNIT] : b \in (-MaxShift)..MaxShift}

MoveVertex(path, k, d) ==
  [path EXCEPT ![k] = [x |-> @.x + d.x, z |-> @.z + d.z]]

Prefixes(path) == {SubSeq(path, 1, n) : n \in 0..Len(path)}

Variants(path) ==
  UNION {Prefixes(MoveVertex(path, k, d)) : k \in 1..Len(path), d \in Shifts}

PointInputs ==
  Variants(Ring) \cup Variants(SmallRing) \cup Variants(Twisted)
  \cup Prefixes(Serpentine(2 * HalfRows))

\* widths in metres: all at the floor, or one point below it
WidthInputs(n) ==
  {NoWidths,
   Widths(<<>>),
   Widths([i \in 1..n |-> MIN_TRACK_WIDTH * UNIT]),
   Widths([i \in 1..n |-> IF i = 1 THEN (MIN_TRACK_WIDTH - 1) * UNIT ELSE 14 * UNIT])}

\* ------------------------------------------------------------------------
\* State
\* ------------------------------------------------------------------------

VARIABLES
  pc,               \* where the program stands
  points,           \* argument points of validateTrack
  widths,           \* argument widths of validateTrack
  result,           \* the ValidationResult returned, or the exception raised
  opts,             \* the options of generateTrack
  attempt,          \* the loop counter of generateTrack
  basePoints,       \* basePoints of attemptTrackGeneration
  insertPositions,  \* insertPositions of insertCornerTemplates
  track,            \* what the last attemptTrackGeneration returned
  generated,        \* what generateTrack returned
  outcomes,         \* history: for each finished attempt, whether it passed
  call,             \* the function called and its arguments
  drawing,          \* the local points of processDrawingToWaypoints
  pass,             \* the loop counter of processDrawingToWaypoints
  stages            \* history: the stages applied, with their input and output

vars ==
  <<pc, points, widths, result, opts, attempt, basePoints, insertPositions,
    track, generated, outcomes, call, drawing, pass, stages>>

callVars == <<call, drawing, pass, stages>>

NoCall == [fn |-> "none"]

\* No function call is under way.
CallIdle ==
  /\ call = NoCall
  /\ drawing = <<>>
  /\ pass = 0
  /\ stages = <<>>

generatorVars ==
  <<opts, attempt, basePoints, insertPositions, track, generated, outcomes>>

NoResult == [threw |-> FALSE, none |-> TRUE]

\* ------------------------------------------------------------------------
\* Calls of validateTrack
\* ------------------------------------------------------------------------

InitValidate ==
  /\ pc = "call"
  /\ points \in PointInputs
  /\ widths \in WidthInputs(Len(points))
  /\ result = NoResult
  /\ opts = [difficulty |-> "medium", maxAttempts |-> 0, includeCornerTemplates |-> FALSE]
  /\ attempt = 0
  /\ basePoints = <<>>
  /\ insertPositions = <<>>
  /\ track = Null
  /\ generated = Null
  /\ outcomes = <<>>
  /\ CallIdle

Validate ==
  /\ pc = "call"
  /\ result' = validateTrack(points, widths)
  /\ pc' = "returned"
  /\ UNCHANGED <<points, widths>>
  /\ UNCHANGED generatorVars
  /\ UNCHANGED callVars

NextValidate == Validate

SpecValidate == InitValidate /\ [][NextValidate]_vars

\* ------------------------------------------------------------------------
\* generateTrack and its caller handleGenerateTrack (src/unnamed/part_010)
\* ------------------------------------------------------------------------

\* the largest maxAttempts a call is made with
MaxAttempts == 2

\* The templates the random draw of insertCornerTemplates yields, as
\* indices into CORNER_TEMPLATES.
TemplateDraws == {Len(CORNER_TEMPLATES)}

Options ==
  [difficulty : Difficulties,
   maxAttempts : 1..MaxAttempts,
   includeCornerTemplates : BOOLEAN]

Init ==
  /\ pc = "generate"
  /\ opts \in Options
  /\ attempt = 0
  /\ basePoints = <<>>
  /\ insertPositions = <<>>
  /\ track = Null
  /\ generated = Null
  /\ outcomes = <<>>
  /\ points = <<>>
  /\ widths = NoWidths
  /\ result = NoResult
  /\ CallIdle

\* A loop that makes one attempt too many.
OneMoreAttempt(count, maxAttempts) == count <= maxAttempts

\* attempt < opts.maxAttempts
MoreAttempts(count, maxAttempts) == count < maxAttempts

\* Steps 1 and 2 of attemptTrackGeneration: scatter and sort.
StartAttempt ==
  /\ pc = "generate"
  /\ MoreAttempts(attempt, opts.maxAttempts)
  /\ \E numPoints \in minPoints..maxPoints :
       \E scattered \in Scatter(numPoints) :
         basePoints' = sortPointsCounterClockwise(scattered)
  /\ insertPositions' = <<>>
  /\ pc' = IF opts.includeCornerTemplates THEN "pick" ELSE "condition"
  /\ UNCHANGED <<points, widths, result, opts, attempt, track, generated, outcomes>>
  /\ UNCHANGED callVars

\* i < numCorners && i < points.length - 1, with i = insertPositions.length
MorePositions ==
  /\ Len(insertPositions) < cornerCounts(opts.difficulty)
  /\ Len(insertPositions) < Len(basePoints) - 1

\* One iteration of the do-while loop of insertCornerTemplates: a rejected
\* draw leaves the state as it was and the loop draws again.
PickPosition ==
  /\ pc = "pick"
  /\ MorePositions
  /\ \E pos \in DrawnPositions(Len(basePoints)) :
       IF PositionRejected(insertPositions, pos)
       THEN UNCHANGED insertPositions
       ELSE insertPositions' = Append(insertPositions, pos)
  /\ UNCHANGED <<pc, points, widths, result, opts, attempt, basePoints, track,
                 generated, outcomes>>
  /\ UNCHANGED callVars

\* The sort of the positions and the loop that splices the corners in.
InsertCorners ==
  /\ pc = "pick"
  /\ ~MorePositions
  /\ \E templates \in [1..Len(insertPositions) -> TemplateDraws] :
       basePoints' = InsertLoop(basePoints, SortDescending(insertPositions),
                                templates, opts.difficulty, 1)
  /\ insertPositions' = SortDescending(insertPositions)
  /\ pc' = "condition"
  /\ UNCHANGED <<points, widths, result, opts, attempt, track, generated, outcomes>>
  /\ UNCHANGED callVars

\* Steps 4 to 9 of attemptTrackGeneration; its locals end with the call.
FinishAttempt ==
  /\ pc = "condition"
  /\ \E attempted \in {ValidateAndAssign(SmoothPoints(basePoints, worldSize),
                                         opts.difficulty)} :
       /\ track' = attempted.track
       /\ outcomes' = Append(outcomes, attempted.valid)
  /\ basePoints' = <<>>
  /\ insertPositions' = <<>>
  /\ pc' = "attempted"
  /\ UNCHANGED <<points, widths, result, opts, attempt, generated>>
  /\ UNCHANGED callVars

\* if (track && track.length > 0) return track; otherwise attempt++
CheckAttempt ==
  /\ pc = "attempted"
  /\ IF track # Null /\ Len(track) > 0
     THEN /\ generated' = track
          /\ pc' = "returned"
          /\ UNCHANGED attempt
     ELSE /\ attempt' = attempt + 1
          /\ pc' = "generate"
          /\ UNCHANGED generated
  /\ UNCHANGED <<points, widths, result, opts, basePoints, insertPositions, track,
                 outcomes>>
  /\ UNCHANGED callVars

\* The loop of generateTrack is over: return null.
ReturnNull ==
  /\ pc = "generate"
  /\ ~MoreAttempts(attempt, opts.maxAttempts)
  /\ generated' = Null
  /\ pc' = "returned"
  /\ UNCHANGED <<points, widths, result, opts, attempt, basePoints, insertPositions,
                 track, outcomes>>
  /\ UNCHANGED callVars

\* handleGenerateTrack, generated && generated.length > 0: validate the
\* positions of the generated waypoints with their widths.
Revalidate ==
  /\ pc = "returned"
  /\ generated # Null /\ Len(generated) > 0
  /\ points' = Positions(generated)
  /\ widths' = WidthsOf(generated)
  /\ result' = validateTrack(Positions(generated), WidthsOf(generated))
  /\ pc' = "done"
  /\ UNCHANGED generatorVars
  /\ UNCHANGED callVars

\* handleGenerateTrack, the other branch: fall back to the oval track.
Fallback ==
  /\ pc = "returned"
  /\ ~(generated # Null /\ Len(generated) > 0)
  /\ \E oval \in {generateOvalTrack(200, 15)} :
       /\ points' = Positions(oval)
       /\ widths' = WidthsOf(oval)
       /\ result' = validateTrack(Positions(oval), WidthsOf(oval))
  /\ pc' = "done"
  /\ UNCHANGED generatorVars
  /\ UNCHANGED callVars

Next ==
  \/ StartAttempt
  \/ PickPosition
  \/ InsertCorners
  \/ FinishAttempt
  \/ CheckAttempt
  \/ ReturnNull
  \/ Revalidate
  \/ Fallback

Spec == Init /\ [][Next]_vars

\* ------------------------------------------------------------------------
\* processDrawingToWaypoints (src/unnamed/part_001)
\* ------------------------------------------------------------------------

\* the variables of the validator and of the generator
trackVars ==
  <<points, widths, opts, attempt, basePoints, insertPositions, track, generated,
    outcomes>>

\* No validation and no generation is under way.
TrackIdle ==
  /\ points = <<>>
  /\ widths = NoWidths
  /\ opts = [difficulty |-> "medium", maxAttempts |-> 0, includeCornerTemplates |-> FALSE]
  /\ attempt = 0
  /\ basePoints = <<>>
  /\ insertPositions = <<>>
  /\ track = Null
  /\ generated = Null
  /\ outcomes = <<>>

\* the largest smoothingIterations a call is made with
MaxSmoothing == 2

\* A square of 40 m drawn point by point, with one point 1.4 m after its
\* predecessor; the last point stops 10 m short of the first.
DrawnLoop ==
  <<Pt(0, 0), Pt(10, 0), Pt(11, 1), Pt(20, 0), Pt(30, 0), Pt(40, 0), Pt(40, 10),
    Pt(40, 20), Pt(40, 30), Pt(40, 40), Pt(30, 40), Pt(20, 40), Pt(10, 40),
    Pt(0, 40), Pt(0, 30), Pt(0, 20), Pt(0, 10)>>

\* A drawing that swings 8 m to either side of its chords.
DrawnZigzag ==
  <<Pt(0, 0), Pt(10, 8), Pt(20, 0), Pt(30, 8), Pt(40, 0), Pt(40, 20), Pt(20, 25),
    Pt(0, 20), Pt(0, 8)>>

RawInputs == Prefixes(DrawnLoop) \cup Prefixes(DrawnZigzag)

\* DEFAULT_OPTIONS, with the options a call overrides
ProcessingOptions ==
  [simplificationTolerance : {3 * UNIT},
   smoothingIterations : 0..MaxSmoothing,
   minPointSpacing : {5 * UNIT},
   autoClose : BOOLEAN,
   closeThreshold : {20 * UNIT}]

InitDrawing ==
  /\ pc = "process"
  /\ call \in [fn : {"processDrawingToWaypoints"},
               rawPoints : RawInputs,
               options : ProcessingOptions]
  /\ drawing = <<>>
  /\ pass = 0
  /\ stages = <<>>
  /\ result = NoResult
  /\ TrackIdle

\* The record the history keeps of one stage.
Stage(name, input, output) == [name |-> name, input |-> input, output |-> output]

\* An entry test that lets two points through.
OnePoint(rawPoints) == Len(rawPoints) < 2

\* rawPoints.length < 3
TooFewRawPoints(rawPoints) == Len(rawPoints) < 3

\* if (rawPoints.length < 3) return [];
ReturnEmpty ==
  /\ pc = "process"
  /\ TooFewRawPoints(call.rawPoints)
  /\ result' = <<>>
  /\ pc' = "returned"
  /\ UNCHANGED <<call, drawing, pass, stages>>
  /\ UNCHANGED trackVars

\* Step 1: remove duplicate and too-close points.
FilterPoints ==
  /\ pc = "process"
  /\ ~TooFewRawPoints(call.rawPoints)
  /\ \E filtered \in {filterMinDistance(call.rawPoints,
                                        call.options.minPointSpacing \div 2)} :
       /\ drawing' = filtered
       /\ stages' = Append(stages, Stage("filter", call.rawPoints, filtered))
  /\ pc' = "simplify"
  /\ UNCHANGED <<call, pass, result>>
  /\ UNCHANGED trackVars

\* Step 2: simplify the path.
SimplifyPath ==
  /\ pc = "simplify"
  /\ \E simplified \in {douglasPeucker(drawing, call.options.simplificationTolerance)} :
       /\ drawing' = simplified
       /\ stages' = Append(stages, Stage("simplify", drawing, simplified))
  /\ pc' = "smooth"
  /\ UNCHANGED <<call, pass, result>>
  /\ UNCHANGED trackVars

\* A loop that makes no smoothing pass.
NoPass(i, smoothingIterations) == FALSE

\* i < opts.smoothingIterations
MorePasses(i, smoothingIterations) == i < smoothingIterations

\* Step 3: one pass of the smoothing loop, on the open path.
SmoothPass ==
  /\ pc = "smooth"
  /\ MorePasses(pass, call.options.smoothingIterations)
  /\ \E smoothed \in {laplacianSmooth(drawing, FALSE, 25)} :
       /\ drawing' = smoothed
       /\ stages' = Append(stages, Stage("smooth", drawing, smoothed))
  /\ pass' = pass + 1
  /\ UNCHANGED <<pc, call, result>>
  /\ UNCHANGED trackVars

\* Step 4, after the loop: auto-close if the option is set.
AutoClose ==
  /\ pc = "smooth"
  /\ ~MorePasses(pass, call.options.smoothingIterations)
  /\ IF call.options.autoClose
     THEN \E closed \in {tryAutoClose(drawing, call.options.closeThreshold)} :
            /\ drawing' = closed
            /\ stages' = Append(stages, Stage("autoClose", drawing, closed))
     ELSE UNCHANGED <<drawing, stages>>
  /\ pc' = "resample"
  /\ UNCHANGED <<call, pass, result>>
  /\ UNCHANGED trackVars

\* Step 5: resample, as a closed path.
Resample ==
  /\ pc = "resample"
  /\ \E resampled \in {resamplePath(drawing, call.options.minPointSpacing, TRUE)} :
       /\ drawing' = resampled
       /\ stages' = Append(stages, Stage("resample", drawing, resampled))
  /\ pc' = "finalSmooth"
  /\ UNCHANGED <<call, pass, result>>
  /\ UNCHANGED trackVars

\* Step 6: the final smoothing pass, on the closed path.
FinalSmooth ==
  /\ pc = "finalSmooth"
  /\ \E smoothed \in {laplacianSmooth(drawing, TRUE, 25)} :
       /\ drawing' = smoothed
       /\ stages' = Append(stages, Stage("finalSmooth", drawing, smoothed))
  /\ pc' = "assign"
  /\ UNCHANGED <<call, pass, result>>
  /\ UNCHANGED trackVars

\* Step 7: assign widths, speed limits and checkpoints, and return.
AssignProperties ==
  /\ pc = "assign"
  /\ \E waypoints \in {assignTrackProperties(drawing)} :
       /\ result' = waypoints
       /\ stages' = Append(stages, Stage("assign", drawing, Positions(waypoints)))
  /\ pc' = "returned"
  /\ UNCHANGED <<call, drawing, pass>>
  /\ UNCHANGED trackVars

NextDrawing ==
  \/ ReturnEmpty
  \/ FilterPoints
  \/ SimplifyPath
  \/ SmoothPass
  \/ AutoClose
  \/ Resample
  \/ FinalSmooth
  \/ AssignProperties

SpecDrawing == InitDrawing /\ [][NextDrawing]_vars

\* ------------------------------------------------------------------------
\* Calls of single functions
\* ------------------------------------------------------------------------

\* A call of one function, with arguments from calls, is about to run.
Calling(calls) ==
  /\ pc = "call"
  /\ call \in calls
  /\ drawing = <<>>
  /\ pass = 0
  /\ stages = <<>>
  /\ result = NoResult
  /\ TrackIdle

\* The function called returns value.
Return(value) ==
  /\ pc' = "returned"
  /\ result' = value
  /\ UNCHANGED <<call, drawing, pass, stages>>
  /\ UNCHANGED trackVars

\* The points (x, z) with x and z from 0 to size - 1 metres.
GridPoints(size) == {Pt(mx, mz) : mx \in 0..(size - 1), mz \in 0..(size - 1)}

\* segmentsIntersect(seg1, seg2), for every two segments between the points
\* of a grid of SegmentGrid by SegmentGrid points.
SegmentGrid == 3

Segments == [start : GridPoints(SegmentGrid), end : GridPoints(SegmentGrid)]

InitSegments ==
  Calling([fn : {"segmentsIntersect"}, seg1 : Segments, seg2 : Segments])

CallSegmentsIntersect ==
  /\ pc = "call"
  /\ call.fn = "segmentsIntersect"
  /\ Return(segmentsIntersect(call.seg1, call.seg2))

SpecSegments == InitSegments /\ [][CallSegmentsIntersect]_vars

\* The points of a lattice of two rows, width + 1 metres wide.
Lattice(width) == {Pt(mx, mz) : mx \in 0..width, mz \in 0..1}

\* The sequences of at most max elements of set.
SeqsUpTo(set, max) == UNION {[1..k -> set] : k \in 0..max}

\* points.slice(from - 1, to) for every from and to
Slices(path) ==
  {SubSeq(path, from, to) : from \in 1..(Len(path) + 1), to \in 0..Len(path)}

\* Argument paths: every path of at most MaxPathLen points of the lattice,
\* and every stretch of the two drawings.
LatticeWidth == 2
MaxPathLen == 4

LatticePaths == SeqsUpTo(Lattice(LatticeWidth), MaxPathLen)

DrawnPaths == Slices(DrawnLoop) \cup Slices(DrawnZigzag)

\* douglasPeucker(points, tolerance), for tolerances from 0 to 10 m.
Tolerances == {0, UNIT \div 2, UNIT, 3 * UNIT, 10 * UNIT}

InitSimplify ==
  Calling([fn : {"douglasPeucker"},
           points : LatticePaths \cup DrawnPaths,
           tolerance : Tolerances])

CallDouglasPeucker ==
  /\ pc = "call"
  /\ call.fn = "douglasPeucker"
  /\ Return(douglasPeucker(call.points, call.tolerance))

SpecSimplify == InitSimplify /\ [][CallDouglasPeucker]_vars

\* resamplePath(points, targetSpacing, true), for spacings from 0.5 to 20 m.
Spacings == {UNIT \div 2, 2 * UNIT, 5 * UNIT, 20 * UNIT}

InitResample ==
  Calling([fn : {"resamplePath"},
           points : LatticePaths \cup DrawnPaths,
           targetSpacing : Spacings])

CallResamplePath ==
  /\ pc = "call"
  /\ call.fn = "resamplePath"
  /\ Return(resamplePath(call.points, call.targetSpacing, TRUE))

SpecResample == InitResample /\ [][CallResamplePath]_vars

\* calculateCurvature(points, true)
InitCurvature ==
  Calling([fn : {"calculateCurvature"}, points : LatticePaths \cup DrawnPaths])

CallCalculateCurvature ==
  /\ pc = "call"
  /\ call.fn = "calculateCurvature"
  /\ Return(calculateCurvature(call.points, TRUE))

SpecCurvature == InitCurvature /\ [][CallCalculateCurvature]_vars

\* adjustDifficulty(waypoints, difficulty), for lists of at most
\* MaxWaypoints waypoints whose widths run from 0 to MaxHalfMetres half
\* metres.
MaxWaypoints == 2
MaxHalfMetres == 40

WaypointsOfWidth ==
  [x : {0}, z : {0},
   width : {h * (UNIT \div 2) : h \in 0..MaxHalfMetres},
   speedLimit : {STRAIGHT_SPEED},
   isCheckpoint : {FALSE}]

\* Waypoints of every speed limit from 0 to 5 * MaxHalfMetres km/h in steps
\* of 5, on a straight.
WaypointsOfSpeed ==
  [x : {0}, z : {0},
   width : {STRAIGHT_WIDTH * UNIT},
   speedLimit : {5 * s : s \in 0..MaxHalfMetres},
   isCheckpoint : {TRUE}]

InitDifficulty ==
  Calling([fn : {"adjustDifficulty"},
           waypoints : SeqsUpTo(WaypointsOfWidth, MaxWaypoints)
                         \cup SeqsUpTo(WaypointsOfSpeed, MaxWaypoints),
           difficulty : Difficulties])

CallAdjustDifficulty ==
  /\ pc = "call"
  /\ call.fn = "adjustDifficulty"
  /\ Return(adjustDifficulty(call.waypoints, call.difficulty))

SpecDifficulty == InitDifficulty /\ [][CallAdjustDifficulty]_vars

\* sortPointsCounterClockwise(points), for every list of at most MaxPathLen
\* different points of a lattice of three rows.
ThreeRows == {Pt(mx, mz) : mx \in 0..LatticeWidth, mz \in 0..2}

DistinctPoints(path) ==
  \A i \in 1..Len(path) : \A j \in (i + 1)..Len(path) : path[i] # path[j]

InitSort ==
  Calling([fn : {"sortPointsCounterClockwise"},
           points : {path \in SeqsUpTo(ThreeRows, MaxPathLen) : DistinctPoints(path)}])

CallSortPoints ==
  /\ pc = "call"
  /\ call.fn = "sortPointsCounterClockwise"
  /\ Return(sortPointsCounterClockwise(call.points))

SpecSort == InitSort /\ [][CallSortPoints]_vars

\* Calls of the Geometry Kernel: a point and segments of the grid, lists of
\* at most MaxListLen points of the grid, and for getTangentAtIndex index 0
\* and every index of the list.
MaxListLen == 2

PointLists == SeqsUpTo(GridPoints(SegmentGrid), MaxListLen)

TangentCalls ==
  UNION {[fn : {"getTangentAtIndex"},
          points : {path},
          index : 0..Max(0, Len(path) - 1),
          closed : BOOLEAN] : path \in PointLists}

KernelCalls ==
  UNION {
    [fn : {"pointToSegmentDistance"}, point : GridPoints(SegmentGrid), seg : Segments],
    [fn : {"getSegmentIntersection"}, seg1 : Segments, seg2 : Segments],
    [fn : {"calculateCentroid", "calculateBounds"}, points : PointLists],
    [fn : {"calculatePathLength"}, points : PointLists, closed : BOOLEAN],
    TangentCalls}

InitKernel == Calling(KernelCalls)

CallPointToSegmentDistance ==
  /\ pc = "call"
  /\ call.fn = "pointToSegmentDistance"
  /\ Return(pointToSegmentDistance(call.point, call.seg))

CallGetSegmentIntersection ==
  /\ pc = "call"
  /\ call.fn = "getSegmentIntersection"
  /\ Return(getSegmentIntersection(call.seg1, call.seg2))

CallCalculateCentroid ==
  /\ pc = "call"
  /\ call.fn = "calculateCentroid"
  /\ Return(calculateCentroid(call.points))

CallCalculatePathLength ==
  /\ pc = "call"
  /\ call.fn = "calculatePathLength"
  /\ Return(Returns(calculatePathLength(call.points, call.closed)))

CallCalculateBounds ==
  /\ pc = "call"
  /\ call.fn = "calculateBounds"
  /\ Return(Returns(calculateBounds(call.points)))

CallGetTangentAtIndex ==
  /\ pc = "call"
  /\ call.fn = "getTangentAtIndex"
  /\ Return(getTangentAtIndex(call.points, call.index, call.closed))

NextKernel ==
  \/ CallPointToSegmentDistance
  \/ CallGetSegmentIntersection
  \/ CallCalculateCentroid
  \/ CallCalculatePathLength
  \/ CallCalculateBounds
  \/ CallGetTangentAtIndex

SpecKernel == InitKernel /\ [][NextKernel]_vars

\* tryAutoClose(points, threshold), for thresholds from 0 to 20 m.
Thresholds == {0, UNIT, 20 * UNIT}

InitAutoClose ==
  Calling([fn : {"tryAutoClose"},
           points : LatticePaths \cup DrawnPaths,
           threshold : Thresholds])

CallTryAutoClose ==
  /\ pc = "call"
  /\ call.fn = "tryAutoClose"
  /\ Return(tryAutoClose(call.points, call.threshold))

SpecAutoClose == InitAutoClose /\ [][CallTryAutoClose]_vars

\* insertCornerTemplates(points, difficulty), for base lists of 1 to
\* MaxBaseLen points; call.points keeps the list passed in.
MaxBaseLen == 9

BaseLists ==
  {SubSeq(Circular(maxPoints), 1, n) : n \in 1..MaxBaseLen}
  \cup {SubSeq(Corners, 1, n) : n \in 1..Len(Corners)}

InitCorners ==
  /\ pc = "pick"
  /\ opts \in {o \in Options : o.includeCornerTemplates /\ o.maxAttempts = 1}
  /\ basePoints \in BaseLists
  /\ call = [fn |-> "insertCornerTemplates", points |-> basePoints]
  /\ insertPositions = <<>>
  /\ attempt = 0
  /\ track = Null
  /\ generated = Null
  /\ outcomes = <<>>
  /\ points = <<>>
  /\ widths = NoWidths
  /\ result = NoResult
  /\ drawing = <<>>
  /\ pass = 0
  /\ stages = <<>>

SpecCorners == InitCorners /\ [][PickPosition \/ InsertCorners]_vars

\* Steps 8 and 9 of attemptTrackGeneration on their own:
\* adjustDifficulty(assignTrackProperties(points), difficulty), for every
\* stretch of the two drawings.
InitAssign ==
  Calling([fn : {"assignTrackProperties"},
           points : DrawnPaths,
           difficulty : Difficulties])

CallAssignTrackProperties ==
  /\ pc = "call"
  /\ call.fn = "assignTrackProperties"
  /\ pc' = "assigned"
  /\ result' = assignTrackProperties(call.points)
  /\ UNCHANGED <<call, drawing, pass, stages>>
  /\ UNCHANGED trackVars

AdjustAssigned ==
  /\ pc = "assigned"
  /\ Return(adjustDifficulty(result, call.difficulty))

SpecAssign == InitAssign /\ [][CallAssignTrackProperties \/ AdjustAssigned]_vars

\* The counting of countTurnsByType on the curvature data of a track, for
\* every sequence of at most MaxTurnLen turn types.
MaxTurnLen == 5

InitTurns ==
  Calling([fn : {"countTurnsByType"},
           turnTypes : SeqsUpTo(TurnTypes, MaxTurnLen)])

CallCountTurns ==
  /\ pc = "call"
  /\ call.fn = "countTurnsByType"
  /\ Return(CountTurns([k \in 1..Len(call.turnTypes) |->
                         [turnType |-> call.turnTypes[k]]]))

SpecTurns == InitTurns /\ [][CallCountTurns]_vars

\* calculateSuggestedWidth(curvature), for every curvature from 0 to
\* MaxCurvature / CurvScale per metre in steps of 1 / CurvScale.
MaxCurvature == 12000

InitWidth ==
  Calling([fn : {"calculateSuggestedWidth"}, curvature : 0..MaxCurvature])

CallCalculateSuggestedWidth ==
  /\ pc = "call"
  /\ call.fn = "calculateSuggestedWidth"
  /\ Return(calculateSuggestedWidth(call.curvature))

SpecWidth == InitWidth /\ [][CallCalculateSuggestedWidth]_vars

\* ------------------------------------------------------------------------
\* Properties of validateTrack
\* ------------------------------------------------------------------------

Returned == pc = "returned" /\ ~result.threw

Accepted == Returned /\ result.isValid

ErrorTypes == {result.errors[k].type : k \in 1..Len(result.errors)}

WarningTypes == {result.warnings[k].type : k \in 1..Len(result.warnings)}

\* Segment i of the closed loop: the last one returns to point 0.
LoopSegment(path, i) == Segment(path, i, (i + 1) % Len(path))

\* The pairs of loop segments that share no end point and intersect.
Crossings(path) ==
  LET n == Len(path)
  IN  {pair \in (0..(n - 1)) \X (0..(n - 1)) :
         /\ pair[1] < pair[2]
         /\ pair[1] + 1 # pair[2]
         /\ (pair[2] + 1) % n # pair[1]
         /\ segmentsIntersect(LoopSegment(path, pair[1]), LoopSegment(path, pair[2]))}

\* C1: in every point sequence that validateTrack accepts, no two segments
\* of the closed loop that share no end point intersect.
C1_AcceptedLoopHasNoCrossing == Accepted => Crossings(points) = {}

\* C6: for every accepted point sequence the distance between the first
\* and the last point is at most MAX_CLOSURE_DISTANCE and stats.isClosed
\* is true.
C6_AcceptedIsClosed ==
  Accepted =>
    /\ Len(points) >= 2
    /\ distance(points[1], points[Len(points)]) <= MAX_CLOSURE_DISTANCE * UNIT
    /\ result.stats.isClosed

C6_Witness ==
  /\ Accepted
  /\ distance(points[1], points[Len(points)]) > 0
  /\ result.stats.isClosed

\* C7 as stated: the perimeter of every accepted point sequence lies
\* between MIN_TRACK_LENGTH and MAX_TRACK_LENGTH.
C7_AcceptedWithinBand ==
  Accepted =>
    /\ result.stats.length >= MIN_TRACK_LENGTH * UNIT
    /\ result.stats.length <= MAX_TRACK_LENGTH * UNIT

\* C7: the perimeter of every accepted point sequence is at least
\* MIN_TRACK_LENGTH; a perimeter above MAX_TRACK_LENGTH is accepted and
\* reported by a too_long warning.
C7_AcceptedAboveMinimum ==
  Accepted =>
    /\ result.stats.length >= MIN_TRACK_LENGTH * UNIT
    /\ result.stats.length = calculatePathLength(points, TRUE)
    /\ result.stats.length > MAX_TRACK_LENGTH * UNIT <=> "too_long" \in WarningTypes

C7_Witness == Accepted /\ result.stats.length > MAX_TRACK_LENGTH * UNIT

\* C8: isValid is true exactly when errors is empty; warnings never block,
\* so a sequence whose only finding is too_long is valid.
C8_ValidIffNoErrors ==
  Returned =>
    /\ result.isValid <=> Len(result.errors) = 0
    /\ (Len(result.errors) = 0 /\ WarningTypes = {"too_long"}) => result.isValid

C8_Witness == Accepted /\ WarningTypes = {"too_long"}

\* The condition of each error type, stated on the arguments alone.
ErrorCondition(type) ==
  LET n == Len(points)
      closed == n >= 2 /\ distance(points[1], points[n]) <= MAX_CLOSURE_DISTANCE * UNIT
  IN  CASE type = "too_few_points" -> n < MIN_POINT_COUNT
        [] type = "not_closed" -> ~closed
        [] type = "too_short" -> calculatePathLength(points, closed) < MIN_TRACK_LENGTH * UNIT
        [] type = "self_intersection" ->
             \E pair \in TestedPairs(n, closed) :
               segmentsIntersect(Segment(points, pair[1], pair[1] + 1),
                                 Segment(points, pair[2], NextJ(n, closed, pair[2])))
        [] type = "invalid_geometry" ->
             \E i \in 0..(n - 2) :
               distance(At(points, i), At(points, i + 1)) < MIN_SEGMENT_LENGTH * UNIT
        [] type = "too_narrow" ->
             /\ widths.given
             /\ \E k \in 1..Len(widths.values) : widths.values[k] < MIN_TRACK_WIDTH * UNIT

AllErrorTypes ==
  {"too_few_points", "not_closed", "too_short", "self_intersection",
   "invalid_geometry", "too_narrow"}

\* C9: every check runs on every call: each error type is in errors if and
\* only if its own condition holds, whatever the other checks found.
C9_EveryCheckReports ==
  Returned => \A type \in AllErrorTypes : type \in ErrorTypes <=> ErrorCondition(type)

\* A 5-point sequence that gets too_few_points with the other errors.
C9_Witness ==
  /\ Returned
  /\ Len(points) = 5
  /\ {"too_few_points", "not_closed", "too_short", "too_narrow"} \subseteq ErrorTypes

StatsFields ==
  {"length", "pointCount", "turnCount", "avgWidth", "minWidth", "difficulty",
   "bounds", "isClosed"}

\* C10: validateTrack never throws; for every input it returns a result in
\* which isValid, errors, warnings and every field of stats are populated.
C10_NeverThrows ==
  pc = "returned" =>
    /\ ~result.threw
    /\ DOMAIN result = {"threw", "isValid", "errors", "warnings", "stats"}
    /\ result.isValid \in BOOLEAN
    /\ DOMAIN result.stats = StatsFields
    /\ result.stats.pointCount = Len(points)
    /\ result.stats.length \in Nat
    /\ result.stats.turnCount \in Nat
    /\ result.stats.avgWidth \in Nat
    /\ result.stats.minWidth \in Nat
    /\ result.stats.difficulty \in {"easy", "medium", "hard", "expert"}
    /\ result.stats.isClosed \in BOOLEAN
    /\ DOMAIN result.stats.bounds = {"width", "height"}

\* The empty sequence, validated with widths.
C10_Witness == pc = "returned" /\ Len(points) = 0 /\ widths.given /\ ~result.threw

\* The distance between the indices i and j around a loop of n segments.
LoopDistance(n, i, j) == Min(Abs(j - i), n - Abs(j - i))

\* C20: on a closed path of n points the segments findSelfIntersections
\* leaves untested are those whose indices lie at most
\* INTERSECTION_SKIP_COUNT apart around the loop, on both sides and across
\* the seam: segment 0 is not tested against segment n - 2, nor segment 1
\* against the closing segment n - 1.
C20_SkipWindowAroundLoop ==
  (Returned /\ IsClosed(points)) =>
    \A i \in 0..(Len(points) - 1) : \A j \in (i + 1)..(Len(points) - 1) :
      <<i, j>> \notin TestedPairs(Len(points), TRUE)
        <=> LoopDistance(Len(points), i, j) <= INTERSECTION_SKIP_COUNT

\* The pairs of points i, i + 1 of the array that lie less than
\* MIN_SEGMENT_LENGTH apart.
ShortSegments(path) ==
  {i \in 0..(Len(path) - 2) :
     distance(At(path, i), At(path, i + 1)) < MIN_SEGMENT_LENGTH * UNIT}

InvalidGeometryErrors ==
  SelectSeq(result.errors, LAMBDA e : e.type = "invalid_geometry")

C2_GeneratedRevalidates ==
  (pc = "done" /\ generated # Null) =>
    /\ points = Positions(generated)
    /\ \A k \in 1..Len(generated) : generated[k].width >= MIN_TRACK_WIDTH * UNIT
    /\ ~result.threw
    /\ result.isValid

\* A track generated at the narrowest difficulty and validated again.
C2_Witness ==
  /\ pc = "done"
  /\ generated # Null
  /\ opts.difficulty = "expert"
  /\ result.isValid

\* C3: no step inside an attempt runs forever: whenever the loop that
\* draws an insert position is running, some draw is accepted and ends it.
C3_PickLoopCanExit ==
  (pc = "pick" /\ MorePositions) =>
    \E pos \in 1..(Len(basePoints) - 2) : ~PositionRejected(insertPositions, pos)

\* C4: attempts run one after another, at most maxAttempts of them; no
\* attempt follows one that passed; generateTrack returns the waypoints of
\* the attempt that passed, and null exactly when maxAttempts attempts
\* failed.
C4_AttemptsInOrder ==
  /\ Len(outcomes) <= opts.maxAttempts
  /\ \A k \in 1..(Len(outcomes) - 1) : ~outcomes[k]
  /\ pc \in {"returned", "done"} =>
       /\ generated # Null => outcomes[Len(outcomes)] /\ generated = track
       /\ generated = Null <=>
            /\ Len(outcomes) = opts.maxAttempts
            /\ \A k \in 1..Len(outcomes) : ~outcomes[k]

\* The second attempt passes after the first failed.
C4_Witness ==
  /\ pc = "returned"
  /\ generated # Null
  /\ outcomes = <<FALSE, TRUE>>

\* C5: the waypoints of generateOvalTrack(200), passed through
\* validateTrack, report stats.isClosed = true and no self_intersection
\* error.
C5_OvalIsClosed ==
  (pc = "done" /\ generated = Null) =>
    /\ ~result.threw
    /\ result.stats.isClosed
    /\ "self_intersection" \notin ErrorTypes

\* ------------------------------------------------------------------------
\* Properties of processDrawingToWaypoints
\* ------------------------------------------------------------------------

\* The names of the stages of one call, in the order of the source.
StageOrder(options) ==
  <<"filter", "simplify">>
  \o [i \in 1..options.smoothingIterations |-> "smooth"]
  \o (IF options.autoClose THEN <<"autoClose">> ELSE <<>>)
  \o <<"resample", "finalSmooth", "assign">>

StageNames == [k \in 1..Len(stages) |-> stages[k].name]

\* What the stage named name makes of input, under options.
StageOutput(name, input, options) ==
  CASE name = "filter" -> filterMinDistance(input, options.minPointSpacing \div 2)
    [] name = "simplify" -> douglasPeucker(input, options.simplificationTolerance)
    [] name = "smooth" -> laplacianSmooth(input, FALSE, 25)
    [] name = "autoClose" -> tryAutoClose(input, options.closeThreshold)
    [] name = "resample" -> resamplePath(input, options.minPointSpacing, TRUE)
    [] name = "finalSmooth" -> laplacianSmooth(input, TRUE, 25)
    [] name = "assign" -> Positions(assignTrackProperties(input))

\* C11: for a raw drawing of at least 3 points the stages run in one fixed
\* order: filter, simplify, smoothingIterations open smoothing passes,
\* auto-closure only when autoClose is set, resampling, one final smoothing
\* pass, assignment.  Each stage consumes the output of the one before it,
\* and the resampling and the final smoothing treat the path as closed
\* whether or not auto-closure merged the end points.
C11_StagesInFixedOrder ==
  call.fn = "processDrawingToWaypoints" =>
    /\ Len(stages) <= Len(StageOrder(call.options))
    /\ StageNames = SubSeq(StageOrder(call.options), 1, Len(stages))
    /\ \A k \in 1..Len(stages) :
         /\ stages[k].input = (IF k = 1 THEN call.rawPoints ELSE stages[k - 1].output)
         /\ stages[k].output = StageOutput(stages[k].name, stages[k].input, call.options)
    /\ (pc = "returned" /\ Len(call.rawPoints) >= 3) =>
         /\ StageNames = StageOrder(call.options)
         /\ Positions(result) = stages[Len(stages)].output

\* A call with autoClose set whose end points were not merged, resampled
\* and smoothed to the end.
C11_Witness ==
  /\ pc = "returned"
  /\ call.fn = "processDrawingToWaypoints"
  /\ call.options.autoClose
  /\ call.options.smoothingIterations = 2
  /\ \E k \in 1..Len(stages) :
       stages[k].name = "autoClose" /\ stages[k].output = stages[k].input
  /\ Len(result) >= 8

\* C12 as stated: a raw path of fewer than 3 points is returned unchanged.
C12_ShortPathUnchanged ==
  (pc = "returned" /\ call.fn = "processDrawingToWaypoints" /\ Len(call.rawPoints) < 3) =>
    Positions(result) = call.rawPoints

\* C12: for a raw path of fewer than 3 points processDrawingToWaypoints
\* runs no stage and returns the empty list; the stages douglasPeucker,
\* laplacianSmooth and tryAutoClose return such a path unchanged.
C12_ShortPathGivesNoWaypoints ==
  (pc = "returned" /\ call.fn = "processDrawingToWaypoints" /\ Len(call.rawPoints) < 3) =>
    /\ result = <<>>
    /\ stages = <<>>
    /\ douglasPeucker(call.rawPoints, call.options.simplificationTolerance) = call.rawPoints
    /\ laplacianSmooth(call.rawPoints, FALSE, 25) = call.rawPoints
    /\ laplacianSmooth(call.rawPoints, TRUE, 25) = call.rawPoints
    /\ tryAutoClose(call.rawPoints, call.options.closeThreshold) = call.rawPoints

\* A call with two raw points has returned.
C12_Witness ==
  /\ pc = "returned"
  /\ call.fn = "processDrawingToWaypoints"
  /\ Len(call.rawPoints) = 2

\* ------------------------------------------------------------------------
\* Properties of the Geometry Kernel
\* ------------------------------------------------------------------------

\* C13: segmentsIntersect is symmetric: the answer for (seg1, seg2) is the
\* answer for (seg2, seg1), for crossing, touching, collinear overlapping
\* and zero-length segments alike.
C13_IntersectSymmetric ==
  (pc = "returned" /\ call.fn = "segmentsIntersect") =>
    /\ result \in BOOLEAN
    /\ result = segmentsIntersect(call.seg2, call.seg1)

\* A zero-length segment strictly inside a segment of positive length.
C13_Witness ==
  /\ pc = "returned"
  /\ call.fn = "segmentsIntersect"
  /\ call.seg1.start = call.seg1.end
  /\ call.seg2.start # call.seg2.end
  /\ call.seg1.start \notin {call.seg2.start, call.seg2.end}
  /\ result = TRUE

\* ------------------------------------------------------------------------
\* Properties of the Path Processor
\* ------------------------------------------------------------------------

\* C14: douglasPeucker is idempotent: a second pass with the same
\* tolerance over the output of the first returns that output, no point
\* removed.
C14_SimplifyIdempotent ==
  (pc = "returned" /\ call.fn = "douglasPeucker") =>
    /\ douglasPeucker(result, call.tolerance) = result
    /\ Len(result) <= Len(call.points)

\* A first pass that removed some points and kept some between the ends.
C14_Witness ==
  /\ pc = "returned"
  /\ call.fn = "douglasPeucker"
  /\ Len(result) > 3
  /\ Len(result) < Len(call.points)

\* C15 as stated: the number of points resamplePath returns for a closed
\* path differs from round(perimeter / spacing) by at most one.
C15_CountWithinOne ==
  (pc = "returned" /\ call.fn = "resamplePath") =>
    Abs(Len(result)
        - RoundDiv(calculatePathLength(call.points, TRUE), call.targetSpacing)) <= 1

\* C15: resamplePath returns max(8, round(perimeter / spacing)) points for
\* a closed path: round(perimeter / spacing) of them when that is 8 or
\* more, and 8 when it is less, however short the path.
C15_CountIsRoundedOrEight ==
  (pc = "returned" /\ call.fn = "resamplePath") =>
    /\ Len(result)
         = Max(8, RoundDiv(calculatePathLength(call.points, TRUE), call.targetSpacing))
    /\ RoundDiv(calculatePathLength(call.points, TRUE), call.targetSpacing) >= 7
         => Abs(Len(result)
                - RoundDiv(calculatePathLength(call.points, TRUE), call.targetSpacing)) <= 1

\* A path of 3 or more points whose perimeter over the spacing rounds to
\* 2, resampled to 8 points.
C15_Witness ==
  /\ pc = "returned"
  /\ call.fn = "resamplePath"
  /\ Len(call.points) >= 3
  /\ RoundDiv(calculatePathLength(call.points, TRUE), call.targetSpacing) = 2
  /\ Len(result) = 8

\* ------------------------------------------------------------------------
\* Properties of the Curvature Analyzer
\* ------------------------------------------------------------------------

\* [...points].reverse()
Reversed(path) == [k \in 1..Len(path) |-> path[Len(path) + 1 - k]]

\* C16: the curvature of a closed path at each point is the curvature of
\* the reversed path at the same point: calculateCurvature(reverse(P)) at
\* n - 1 - i equals calculateCurvature(P) at i.
C16_CurvatureOfReversedPath ==
  (pc = "returned" /\ call.fn = "calculateCurvature") =>
    /\ Len(result) = Len(call.points)
    /\ \A i \in 0..(Len(call.points) - 1) :
         At(calculateCurvature(Reversed(call.points), TRUE), Len(call.points) - 1 - i)
           = At(result, i)

\* A bend between two sides of different lengths, on a path whose
\* curvature is not the same at every point.
C16_Witness ==
  /\ pc = "returned"
  /\ call.fn = "calculateCurvature"
  /\ Len(call.points) >= 4
  /\ At(result, 1) > 0
  /\ At(result, 1) # At(result, 2)
  /\ distance(At(call.points, 0), At(call.points, 1))
       # distance(At(call.points, 1), At(call.points, 2))

\* ------------------------------------------------------------------------
\* Properties of the Track Generator's functions
\* ------------------------------------------------------------------------

\* The place of a difficulty in the order easy, medium, hard, expert.
Tier(difficulty) ==
  CASE difficulty = "easy" -> 1
    [] difficulty = "medium" -> 2
    [] difficulty = "hard" -> 3
    [] difficulty = "expert" -> 4

\* C17: for the same waypoint list, the width adjustDifficulty gives a
\* waypoint at a harder tier is at most the width it gives at an easier
\* tier; the width multiplier of expert is at most that of easy.
C17_WidthMonotone ==
  (pc = "returned" /\ call.fn = "adjustDifficulty") =>
    /\ Len(result) = Len(call.waypoints)
    /\ \A harder \in Difficulties :
         Tier(harder) >= Tier(call.difficulty) =>
           /\ widthModifier(harder) <= widthModifier(call.difficulty)
           /\ \A k \in 1..Len(result) :
                adjustDifficulty(call.waypoints, harder)[k].width <= result[k].width

\* A waypoint that is wider at hard than at expert, neither width clamped.
C17_Witness ==
  /\ pc = "returned"
  /\ call.fn = "adjustDifficulty"
  /\ call.difficulty = "hard"
  /\ Len(result) = 2
  /\ result[1].width < 18 * UNIT
  /\ adjustDifficulty(call.waypoints, "expert")[1].width > 10 * UNIT
  /\ adjustDifficulty(call.waypoints, "expert")[1].width < result[1].width

\* A segment whose two ends are one point.
ZeroLength(seg) == seg.start = seg.end

\* The two segments lie on parallel lines, or one of them has no length.
Parallel(seg1, seg2) ==
  (seg1.end.x - seg1.start.x) * (seg2.end.z - seg2.start.z)
    = (seg1.end.z - seg1.start.z) * (seg2.end.x - seg2.start.x)

\* C19: no function of the Geometry Kernel throws on degenerate input, and
\* each returns its sentinel: pointToSegmentDistance on a zero-length
\* segment the distance to its point, getSegmentIntersection on parallel
\* or zero-length segments null, calculateCentroid and calculateBounds on
\* the empty list zeros, calculatePathLength on the empty and the
\* one-point list 0, getTangentAtIndex on a list of 0 or 1 points, closed
\* or open, the tangent (1, 0).
C19_KernelNeverThrows ==
  pc = "returned" =>
    /\ ~result.threw
    /\ (call.fn = "pointToSegmentDistance" /\ ZeroLength(call.seg))
         => result.value = distance(call.point, call.seg.start)
    /\ (call.fn = "getSegmentIntersection" /\ Parallel(call.seg1, call.seg2))
         => result.value = NoIntersection
    /\ (call.fn = "calculateCentroid" /\ Len(call.points) = 0)
         => result.value = [x |-> 0, z |-> 0]
    /\ (call.fn = "calculateBounds" /\ Len(call.points) = 0)
         => result.value = Bounds(0, 0, 0, 0)
    /\ (call.fn = "calculatePathLength" /\ Len(call.points) <= 1)
         => result.value = 0
    /\ (call.fn = "getTangentAtIndex" /\ Len(call.points) <= 1)
         => result.value = [x |-> TrigScale, z |-> 0]

\* d1 and d2 lie strictly on the two sides of 0.
OppositeSigns(d1, d2) == (d1 > 0 /\ d2 < 0) \/ (d1 < 0 /\ d2 > 0)

\* The two segments cross at one point inside both of them.
ProperlyCross(seg1, seg2) ==
  /\ OppositeSigns(crossProduct(seg2.start, seg2.end, seg1.start),
                   crossProduct(seg2.start, seg2.end, seg1.end))
  /\ OppositeSigns(crossProduct(seg1.start, seg1.end, seg2.start),
                   crossProduct(seg1.start, seg1.end, seg2.end))

\* Edge k of the closed polygon through the points of path, k from 0.
Edge(path, k) == Segment(path, k, (k + 1) % Len(path))

\* Some two edges of the closed polygon through path properly cross.
SelfCrossing(path) ==
  \E i \in 0..(Len(path) - 1) : \E j \in (i + 1)..(Len(path) - 1) :
    ProperlyCross(Edge(path, i), Edge(path, j))

AllCollinear(path) ==
  \A i \in 1..Len(path) : \A j \in 1..Len(path) : \A k \in 1..Len(path) :
    crossProduct(path[i], path[j], path[k]) = 0

\* sorted holds the points of path, each as often as path does.
IsPermutation(sorted, path) ==
  /\ Len(sorted) = Len(path)
  /\ \A p \in {path[k] : k \in 1..Len(path)} :
       Cardinality({k \in 1..Len(path) : path[k] = p})
         = Cardinality({k \in 1..Len(sorted) : sorted[k] = p})

\* C18: sortPointsCounterClockwise returns a permutation of its input; for
\* 3 or more different points that are not all on one line the closed
\* polygon through the points in the returned order has no two edges that
\* properly cross.
C18_SortedOrderDoesNotCross ==
  (pc = "returned" /\ call.fn = "sortPointsCounterClockwise") =>
    /\ IsPermutation(result, call.points)
    /\ (Len(call.points) >= 3 /\ ~AllCollinear(call.points)) => ~SelfCrossing(result)

\* Four points given in an order that crosses itself, returned in another.
C18_Witness ==
  /\ pc = "returned"
  /\ call.fn = "sortPointsCounterClockwise"
  /\ Len(call.points) = 4
  /\ SelfCrossing(call.points)
  /\ ~SelfCrossing(result)

\* The point half way between the first and the last point of path.
MidpointOfEnds(path) ==
  [x |-> RoundDiv(path[1].x + path[Len(path)].x, 2),
   z |-> RoundDiv(path[1].z + path[Len(path)].z, 2)]

\* C22: for a path of n >= 3 points whose first and last point lie at most
\* threshold apart tryAutoClose returns n - 1 points: the midpoint of the
\* two end points, then the points 1 to n - 2 unchanged, the last point
\* dropped; a path whose ends lie further apart, or of fewer than 3
\* points, is returned unchanged.
C22_EndsWithinThresholdMerged ==
  (pc = "returned" /\ call.fn = "tryAutoClose") =>
    IF /\ Len(call.points) >= 3
       /\ distance(call.points[1], call.points[Len(call.points)]) <= call.threshold
    THEN /\ Len(result) = Len(call.points) - 1
         /\ result[1] = MidpointOfEnds(call.points)
         /\ SubSeq(result, 2, Len(result))
              = SubSeq(call.points, 2, Len(call.points) - 1)
    ELSE result = call.points

\* sub can be got from path by leaving points out, order kept.
RECURSIVE IsSubsequence(_, _)
IsSubsequence(sub, path) ==
  IF Len(sub) = 0 THEN TRUE
  ELSE IF Len(path) = 0 THEN FALSE
  ELSE IF Head(sub) = Head(path) THEN IsSubsequence(Tail(sub), Tail(path))
  ELSE IsSubsequence(sub, Tail(path))

\* The subranges douglasPeucker is called on, the whole path included.
RECURSIVE Subranges(_, _)
Subranges(path, tolerance) ==
  {path} \cup
    IF Len(path) > 2 /\ MaxDeviation(Deviations(path)).maxDist > tolerance
    THEN Subranges(SubSeq(path, 1, MaxDeviation(Deviations(path)).maxIndex + 1),
                   tolerance)
         \cup Subranges(SubSeq(path, MaxDeviation(Deviations(path)).maxIndex + 1,
                               Len(path)), tolerance)
    ELSE {}

\* C23: douglasPeucker returns a subsequence of its input, order kept and
\* no point invented; for an input of at least 2 points its first and last
\* points are the input's, and the two end points of every subrange of the
\* recursion are kept in that order; an input of at most 2 points is
\* returned as it is.
C23_SubsequenceKeepingEnds ==
  (pc = "returned" /\ call.fn = "douglasPeucker") =>
    /\ IsSubsequence(result, call.points)
    /\ Len(call.points) >= 2 =>
         /\ Len(result) >= 2
         /\ result[1] = call.points[1]
         /\ result[Len(result)] = call.points[Len(call.points)]
         /\ \A range \in Subranges(call.points, call.tolerance) :
              IsSubsequence(<<range[1], range[Len(range)]>>, result)
    /\ Len(call.points) <= 2 => result = call.points

\* A path split at least twice, with points left out of the result.
C23_Witness ==
  /\ pc = "returned"
  /\ call.fn = "douglasPeucker"
  /\ Cardinality(Subranges(call.points, call.tolerance)) >= 5
  /\ Len(result) < Len(call.points)

\* The base list with, before every base point whose index is an insert
\* position, the interior points of that position's template fitted between
\* the base point before it and that base point; from base index b on.
RECURSIVE WithCorners(_, _, _, _, _)
WithCorners(base, positions, templates, difficulty, b) ==
  IF b >= Len(base) THEN <<>>
  ELSE (IF \E k \in 1..Len(positions) : positions[k] = b
        THEN transformCornerTemplate(
               CORNER_TEMPLATES[templates[CHOOSE k \in 1..Len(positions) :
                                            positions[k] = b]],
               At(base, b - 1), At(base, b), difficulty)
        ELSE <<>>)
       \o <<At(base, b)>>
       \o WithCorners(base, positions, templates, difficulty, b + 1)

\* insertCornerTemplates has returned.
CornersInserted == pc = "condition" /\ call.fn = "insertCornerTemplates"

\* The number of templates, their positions apart from the range they lie
\* in, and where their points are in the list returned.
CornersSpliced ==
  /\ Len(insertPositions) = Min(cornerCounts(opts.difficulty), Len(call.points) - 1)
  /\ \A j, k \in 1..Len(insertPositions) :
       j # k => Abs(insertPositions[j] - insertPositions[k]) > 1
  /\ \E templates \in [1..Len(insertPositions) -> 1..Len(CORNER_TEMPLATES)] :
       basePoints = WithCorners(call.points, insertPositions, templates,
                                opts.difficulty, 0)
  /\ IsSubsequence(call.points, basePoints)

\* C24 as stated: whenever insertCornerTemplates returns for a base list of
\* n points, it has spliced min(k, n - 1) templates at positions within
\* 1..n-2, no two of them equal or adjacent, each template's interior
\* points between the base points pos - 1 and pos, the base points kept in
\* order.
C24_PositionsInInterior ==
  CornersInserted =>
    /\ CornersSpliced
    /\ \A k \in 1..Len(insertPositions) :
         insertPositions[k] \in 1..(Len(call.points) - 2)

\* C24, amended: as stated, with the positions within 1..n-2 for n >= 3
\* and the one position of a list of 2 points equal to 1.
C24_TemplatesSpliced ==
  CornersInserted =>
    /\ CornersSpliced
    /\ \A k \in 1..Len(insertPositions) :
         insertPositions[k] \in 1..Max(1, Len(call.points) - 2)

\* Four templates spliced into one list.
C24_Witness ==
  /\ CornersInserted
  /\ Len(insertPositions) = 4
  /\ Len(basePoints) > Len(call.points)

\* The indices of the waypoints marked as checkpoints.
Marked(waypoints) == {k - 1 : k \in {j \in 1..Len(waypoints) : waypoints[j].isCheckpoint}}

\* C25: assignTrackProperties returns one waypoint per input point, at the
\* point's position; for n >= 4 points exactly four waypoints are marked
\* as checkpoints, those at the indices 0, q, 2q and 3q with q = floor(n /
\* 4), and for n < 4 none is; adjustDifficulty leaves the marks as they are.
C25_FourCheckpoints ==
  (pc \in {"assigned", "returned"} /\ call.fn = "assignTrackProperties") =>
    LET n == Len(call.points)
        q == n \div 4
    IN  /\ Len(result) = n
        /\ Positions(result) = call.points
        /\ n >= 4 => /\ Marked(result) = {0, q, 2 * q, 3 * q}
                     /\ Cardinality(Marked(result)) = 4
        /\ n < 4 => Marked(result) = {}

\* The waypoints of nine points after the difficulty pass: marks at 0, 2, 4
\* and 6.
C25_Witness ==
  /\ pc = "returned"
  /\ call.fn = "assignTrackProperties"
  /\ Len(call.points) = 9
  /\ Marked(result) = {0, 2, 4, 6}

\* C26: after the difficulty pass, whatever the difficulty and the waypoint
\* passed in, the width of every waypoint is a whole number of metres from
\* 10 to 18, so never below MIN_TRACK_WIDTH, and its speed limit is a
\* multiple of 10 from 40 to 180.
C26_WidthAndSpeedInRange ==
  (pc = "returned" /\ call.fn = "adjustDifficulty") =>
    \A k \in 1..Len(result) :
      /\ result[k].width % UNIT = 0
      /\ result[k].width >= 10 * UNIT
      /\ result[k].width <= 18 * UNIT
      /\ result[k].width >= MIN_TRACK_WIDTH * UNIT
      /\ result[k].speedLimit % 10 = 0
      /\ result[k].speedLimit >= 40
      /\ result[k].speedLimit <= 180

\* A pass that clamps one speed from above and one from below, or one
\* width from below and one from above.
C26_Witness ==
  /\ pc = "returned"
  /\ call.fn = "adjustDifficulty"
  /\ Len(result) = 2
  /\ \/ /\ call.waypoints[1].speedLimit * speedModifier(call.difficulty) > 180 * 10
        /\ call.waypoints[2].speedLimit * speedModifier(call.difficulty) < 40 * 10
     \/ /\ call.waypoints[1].width * widthModifier(call.difficulty) < 10 * UNIT * 100
        /\ call.waypoints[2].width * widthModifier(call.difficulty) > 18 * UNIT * 100

\* The first indices of the maximal runs of turnType in turnTypes, in index
\* order: a run at the end and a run at the start are two runs.
RunStarts(turnTypes, turnType) ==
  {k \in 1..Len(turnTypes) :
     /\ turnTypes[k] = turnType
     /\ k = 1 \/ turnTypes[k - 1] # turnType}

\* C27: countTurnsByType counts runs, not points: for every sequence of
\* turn types and every type but straight, the count of the type is the
\* number of maximal runs of consecutive indices of that type, a run at the
\* end not joined to one at the start; the count of straight stays 0.
C27_CountsAreRuns ==
  (pc = "returned" /\ call.fn = "countTurnsByType") =>
    /\ result["straight"] = 0
    /\ \A turnType \in TurnTypes \ {"straight"} :
         result[turnType] = Cardinality(RunStarts(call.turnTypes, turnType))

\* A track that starts and ends in a run of one type, with a longer run of
\* another type between them.
C27_Witness ==
  /\ pc = "returned"
  /\ call.fn = "countTurnsByType"
  /\ Len(call.turnTypes) >= 4
  /\ call.turnTypes[1] = call.turnTypes[Len(call.turnTypes)]
  /\ result[call.turnTypes[1]] = 2
  /\ call.turnTypes[2] = call.turnTypes[3]
  /\ result[call.turnTypes[2]] = 1

\* C28: calculateSuggestedWidth is 18 m below the straight threshold and
\* 10 m from the tight threshold on; between the two it lies on the line
\* from 18 m to 10 m, to within the rounding of half a unit; it is within
\* 10 m and 18 m, and the next larger curvature has a width that is not
\* larger and at most one unit smaller, at the two thresholds as elsewhere.
C28_WidthFallsWithoutJump ==
  (pc = "returned" /\ call.fn = "calculateSuggestedWidth") =>
    LET span == CURVATURE_TIGHT - CURVATURE_STRAIGHT
        next == calculateSuggestedWidth(call.curvature + 1)
    IN  /\ call.curvature < CURVATURE_STRAIGHT => result = 18 * UNIT
        /\ call.curvature >= CURVATURE_TIGHT => result = 10 * UNIT
        /\ (call.curvature >= CURVATURE_STRAIGHT /\ call.curvature < CURVATURE_TIGHT) =>
             2 * Abs((18 * UNIT - result) * span
                     - (call.curvature - CURVATURE_STRAIGHT) * 8 * UNIT) <= span
        /\ result >= 10 * UNIT
        /\ result <= 18 * UNIT
        /\ next <= result
        /\ result - next <= 1

\* A curvature between the thresholds with a width between 10 m and 18 m.
C28_Witness ==
  /\ pc = "returned"
  /\ call.fn = "calculateSuggestedWidth"
  /\ call.curvature > CURVATURE_STRAIGHT
  /\ call.curvature < CURVATURE_TIGHT
  /\ result > 10 * UNIT
  /\ result < 18 * UNIT

\* The point lies within the bounding box of the segment.
InBox(point, seg) == onSegment(seg.start, point, seg.end)

\* C29: for two segments that are not parallel, getSegmentIntersection
\* returns a point exactly when segmentsIntersect is true, segments that
\* touch at an end point included, and the point lies within the boxes of
\* both segments; for parallel, collinear or zero-length segments it
\* returns null.
C29_IntersectionRoutinesAgree ==
  (pc = "returned" /\ call.fn = "getSegmentIntersection") =>
    /\ ~result.threw
    /\ IF Parallel(call.seg1, call.seg2)
       THEN result.value = NoIntersection
       ELSE /\ (result.value # NoIntersection)
                 <=> segmentsIntersect(call.seg1, call.seg2)
            /\ result.value # NoIntersection =>
                 /\ InBox(result.value, call.seg1)
                 /\ InBox(result.value, call.seg2)

\* The two diagonals of a square cross at its centre, and two segments that
\* are not parallel touch at an end point of one of them.
C29_Witness ==
  /\ pc = "returned"
  /\ call.fn = "getSegmentIntersection"
  /\ \/ /\ call.seg1 = [start |-> Pt(0, 0), end |-> Pt(2, 2)]
        /\ call.seg2 = [start |-> Pt(0, 2), end |-> Pt(2, 0)]
        /\ result.value = Pt(1, 1)
     \/ /\ ~Parallel(call.seg1, call.seg2)
        /\ result.value = call.seg1.end
        /\ result.value \notin {call.seg2.start, call.seg2.end}

====
